---- MODULE Spec2Model ----
(***************************************************************************)
(* The keystone resource manager (projects and domains kept in one table,  *)
(* src/keystone/resource/core.py) as a state machine.  The state is what   *)
(* the storage drivers hold; every manager call is one action that runs    *)
(* the whole handler, its driver calls included.                           *)
(***************************************************************************)
EXTENDS Integers, Sequences, FiniteSets, TLC

\* Bounds of the model: the rows the project table holds at most, and the
\* names in use.  There is always one id more than rows, so that a create on
\* an unstored id can be tried on a full table.
MaxProjects == 3
NumNames == 2
NumIds == MaxProjects + 1
\* The largest value CONF.max_project_tree_depth is configured with.
MaxDepth == 2
\* The largest number of attributes an update payload of Spec carries.
MaxFields == 1

Ids == 1..NumIds
Names == 1..NumNames
\* Python's None (an absent domain_id or parent_id).
None == 0
\* CONF.federation.federated_domain_name, lower-cased, as a name and as an id.
FederatedName == NumNames + 1
FederatedId == NumIds + 1
\* The same keyword written with an upper-case letter.
FederatedNameCased == NumNames + 2
FederatedIdCased == NumIds + 2
\* CONF.identity.default_domain_id.
DefaultDomainId == 1

\* A slot of the project table that holds no row.
NoProject == [absent |-> TRUE]
\* No call of a storage-free function is in flight; a call has not returned.
NoCall == [fn |-> "none"]
NotReturned == [pending |-> TRUE]
\* The threads whose calls are followed step by step, and a thread in no call.
Threads == {"get_catalog", "update_endpoint", "create_project", "parent_call"}
Idle == [pc |-> "idle"]
NoneInFlight == [th \in Threads |-> Idle]

VARIABLES
    max_project_tree_depth,  \* CONF.max_project_tree_depth, set at start
    multiple_domains_supported, \* identity_api.multiple_domains_supported, set at start
    projects,       \* the project table of the resource driver: id -> ref
    whitelisted,    \* stored non-sensitive config options: <<domain, group, option>>
    sensitive,      \* stored sensitive config options: <<domain, group, option>>
    registration,   \* the domain registered for the one registration type, or None
    catalog,        \* the tables of the catalog driver
    computed_catalog,   \* COMPUTED_CATALOG_REGION: key -> cached value
    project_cache,      \* the memoized get_project: id -> cached ref
    project_name_cache, \* the memoized get_project_by_name: <<name, domain_id>> -> cached ref
    domain_cache,       \* the memoized get_domain: id -> cached ref
    domain_name_cache,  \* the memoized get_domain_by_name: name -> cached ref
    call,           \* a call of a function that reads no storage: its arguments
    returned,       \* what that call returned or raised, NotReturned before
    in_flight       \* the manager calls running in concurrent threads: where
                    \* each one is in its handler, and its local values

resourceVars ==
    <<max_project_tree_depth, multiple_domains_supported, projects, whitelisted,
      sensitive, registration>>
catalogVars == <<catalog, computed_catalog>>
cacheVars ==
    <<project_cache, project_name_cache, domain_cache, domain_name_cache>>
callVars == <<call, returned, in_flight>>
vars == <<resourceVars, catalogVars, cacheVars, callVars>>

----------------------------------------------------------------------------
\* Storage driver: reads.

Exists(s, id) == id \in Ids /\ s[id] # NoProject

Stored(s) == {i \in Ids : s[i] # NoProject}

Children(s, id) == {c \in Stored(s) : s[c].parent_id = id}

\* Mutant: every project passes for a leaf.
IsLeafBroken(s, project_id) == TRUE

is_leaf_project(s, project_id) == Children(s, project_id) = {}

list_projects_in_domain(s, domain_id) ==
    {i \in Stored(s) : s[i].domain_id = domain_id}

RECURSIVE SetToSeq(_)
SetToSeq(S) ==
    IF S = {} THEN <<>>
    ELSE LET m == CHOOSE x \in S : \A y \in S : x <= y
         IN  <<m>> \o SetToSeq(S \ {m})

Range(q) == {q[k] : k \in 1..Len(q)}

\* Mutant: the list is left in the order it has.
Unreversed(q) == q

\* list.reverse().
Reverse(q) == [k \in 1..Len(q) |-> q[Len(q) + 1 - k]]

\* The ancestors of a project, nearest first.  err = "None" is the bare
\* `return` taken when an id is examined twice.
RECURSIVE parents_walk(_, _, _, _)
parents_walk(s, pid, parents, examined) ==
    IF s[pid].parent_id = None THEN [err |-> "ok", refs |-> parents]
    ELSE IF pid \in examined THEN [err |-> "None", refs |-> <<>>]
    ELSE IF ~Exists(s, s[pid].parent_id)
         THEN [err |-> "ProjectNotFound", refs |-> <<>>]
    ELSE parents_walk(s, s[pid].parent_id,
                      Append(parents, s[pid].parent_id), examined \cup {pid})

driver_list_project_parents(s, project_id) ==
    IF ~Exists(s, project_id) THEN [err |-> "ProjectNotFound", refs |-> <<>>]
    ELSE parents_walk(s, project_id, <<>>, {})

\* The subtree below a project, level by level (every project after its
\* ancestors); a repeated id ends the walk.
RECURSIVE subtree_walk(_, _, _, _)
subtree_walk(s, children, subtree, examined) ==
    IF children = {} \/ children \cap examined # {} THEN subtree
    ELSE subtree_walk(s, UNION {Children(s, c) : c \in children},
                      subtree \o SetToSeq(children), examined \cup children)

driver_list_projects_in_subtree(s, project_id) ==
    subtree_walk(s, Children(s, project_id), <<>>, {project_id})

----------------------------------------------------------------------------
\* Manager: checks.  A check yields [err, msg]; err = "ok" when it passes.

Pass == [err |-> "ok", msg |-> ""]
Raise(e, m) == [err |-> e, msg |-> m]

_assert_valid_project_id(s, project_id) ==
    IF project_id = None THEN Raise("ValidationError", "project required")
    ELSE IF ~Exists(s, project_id) THEN Raise("ProjectNotFound", "")
    ELSE Pass

list_project_parents(s, project_id) ==
    LET v == _assert_valid_project_id(s, project_id)
    IN  IF v.err # "ok" THEN [err |-> v.err, refs |-> <<>>]
        ELSE driver_list_project_parents(s, project_id)

list_projects_in_subtree(s, project_id) ==
    LET v == _assert_valid_project_id(s, project_id)
    IN  IF v.err # "ok" THEN [err |-> v.err, refs |-> <<>>]
        ELSE [err |-> "ok", refs |-> driver_list_projects_in_subtree(s, project_id)]

\* Mutant: the project itself is not counted.
DepthWithoutSelf(parents_list) == Len(parents_list)

_get_hierarchy_depth(parents_list) == Len(parents_list) + 1

\* Mutant: the limit is taken one too large.
DepthOffByOne(parents_list) ==
    IF _get_hierarchy_depth(parents_list) > max_project_tree_depth + 2
    THEN Raise("ForbiddenNotSecurity", "max depth") ELSE Pass

_assert_max_hierarchy_depth(parents_list) ==
    IF _get_hierarchy_depth(parents_list) > max_project_tree_depth + 1
    THEN Raise("ForbiddenNotSecurity", "max depth") ELSE Pass

\* str.lower of a name and of an id: the keyword in another case becomes
\* the lower-cased keyword, every other name and id is written in lower case.
lower_name(name) == IF name = FederatedNameCased THEN FederatedName ELSE name
lower_id(id) == IF id = FederatedIdCased THEN FederatedId ELSE id

assert_domain_not_federated(domain_id, name) ==
    IF lower_name(name) = FederatedName
    THEN Raise("AssertionError", "federated name")
    ELSE IF lower_id(domain_id) = FederatedId
    THEN Raise("AssertionError", "federated id")
    ELSE Pass

\* Mutant: a project acting as a domain may be given a parent.
DomainParentUnchecked(project_id, project) ==
    IF ~multiple_domains_supported /\ project_id # DefaultDomainId
    THEN Raise("ValidationError", "multiple domains")
    ELSE assert_domain_not_federated(project_id, project.name)

_assert_is_domain_project_constraints(project_id, project) ==
    IF ~multiple_domains_supported /\ project_id # DefaultDomainId
    THEN Raise("ValidationError", "multiple domains")
    ELSE IF assert_domain_not_federated(project_id, project.name).err # "ok"
    THEN assert_domain_not_federated(project_id, project.name)
    ELSE IF project.parent_id # None
    THEN Raise("ValidationError", "only root projects act as domains")
    ELSE Pass

\* get_domain: the project must exist and act as a domain.
get_domain(s, domain_id) ==
    IF ~Exists(s, domain_id) \/ ~s[domain_id].is_domain
    THEN Raise("DomainNotFound", "") ELSE Pass

\* assert_domain_enabled, the domain read through get_domain.
assert_domain_enabled(s, domain_id) ==
    IF get_domain(s, domain_id).err # "ok" THEN get_domain(s, domain_id)
    ELSE IF ~s[domain_id].enabled
    THEN Raise("AssertionError", "domain is disabled")
    ELSE Pass

\* assert_project_enabled, the project read through get_project.
assert_project_enabled(s, project_id) ==
    IF ~Exists(s, project_id) THEN Raise("ProjectNotFound", "")
    ELSE IF /\ s[project_id].domain_id # None
            /\ assert_domain_enabled(s, s[project_id].domain_id).err # "ok"
    THEN assert_domain_enabled(s, s[project_id].domain_id)
    ELSE IF ~s[project_id].enabled
    THEN Raise("AssertionError", "project is disabled")
    ELSE Pass

_assert_regular_project_constraints(s, project) ==
    IF get_domain(s, project.domain_id).err # "ok"
    THEN get_domain(s, project.domain_id)
    ELSE IF ~Exists(s, project.parent_id) THEN Raise("ProjectNotFound", "")
    ELSE LET parent_ref == s[project.parent_id]
         IN  IF parent_ref.is_domain
             THEN IF project.parent_id # project.domain_id
                  THEN Raise("ValidationError", "parent is another domain")
                  ELSE Pass
             ELSE IF parent_ref.domain_id # project.domain_id
                  THEN Raise("ValidationError", "parent in a different domain")
                  ELSE Pass

_enforce_project_constraints(s, project_id, project) ==
    IF project.is_domain
    THEN _assert_is_domain_project_constraints(project_id, project)
    ELSE LET r == _assert_regular_project_constraints(s, project)
             pl == list_project_parents(s, project.parent_id)
             parents_list == Append(pl.refs, project.parent_id)
         IN  IF r.err # "ok" THEN r
             ELSE IF pl.err = "None" THEN Raise("AttributeError", "")
             ELSE IF pl.err # "ok" THEN Raise(pl.err, "")
             ELSE IF \E k \in 1..Len(parents_list) : ~s[parents_list[k]].enabled
             THEN Raise("ValidationError", "disabled branch")
             ELSE _assert_max_hierarchy_depth(parents_list)

----------------------------------------------------------------------------
\* Manager: handlers.  A handler yields how the call ended, the project table
\* it leaves and the driver writes and side effects it made.

Result(e, m, s, l) == [err |-> e, msg |-> m, projects |-> s, log |-> l]

\* driver.create_project raises Conflict on a stored id or a stored
\* (name, domain_id) pair.
driver_create_conflict(s, project_id, project) ==
    \/ Exists(s, project_id)
    \/ \E j \in Stored(s) :
          s[j].name = project.name /\ s[j].domain_id = project.domain_id

create_project(s, project_id, p) ==
    LET project == [p EXCEPT !.parent_id =
                       IF p.parent_id = None THEN p.domain_id ELSE p.parent_id]
        c == _enforce_project_constraints(s, project_id, project)
    IN  IF c.err # "ok" THEN Result(c.err, c.msg, s, <<>>)
        ELSE IF driver_create_conflict(s, project_id, project)
        THEN Result("Conflict", "", s, <<>>)
        ELSE Result("ok", "", [s EXCEPT ![project_id] = project],
                    <<[ev |-> "driver.create_project", id |-> project_id],
                      [ev |-> "created", id |-> project_id]>>)

_get_project_from_domain(domain_ref) ==
    [name |-> domain_ref.name, enabled |-> domain_ref.enabled,
     domain_id |-> None, parent_id |-> None, is_domain |-> TRUE]

create_domain(s, domain_id, domain) ==
    create_project(s, domain_id, _get_project_from_domain(domain))

\* An update payload: `has` names the attributes the payload carries; an
\* attribute that is not carried is never read.
Attrs == {"name", "enabled", "domain_id", "parent_id", "is_domain"}

Get(ref, attr) ==
    CASE attr = "name" -> ref.name
      [] attr = "enabled" -> ref.enabled
      [] attr = "domain_id" -> ref.domain_id
      [] attr = "parent_id" -> ref.parent_id
      [] attr = "is_domain" -> ref.is_domain

\* driver.update_project merges the payload into the stored row.
Merged(original, f) ==
    [name |-> IF "name" \in f.has THEN f.name ELSE original.name,
     enabled |-> IF "enabled" \in f.has THEN f.enabled ELSE original.enabled,
     domain_id |-> IF "domain_id" \in f.has THEN f.domain_id
                   ELSE original.domain_id,
     parent_id |-> IF "parent_id" \in f.has THEN f.parent_id
                   ELSE original.parent_id,
     is_domain |-> ("is_domain" \in f.has /\ f.is_domain) \/ original.is_domain]

\* driver.update_project raises Conflict when another row holds the name.
driver_update_conflict(s, project_id, ref) ==
    \E j \in Stored(s) \ {project_id} :
        s[j].name = ref.name /\ s[j].domain_id = ref.domain_id

\* Mutant: the parents are not looked at.
ParentsCheckSkipped(s, project_id) == Pass

_assert_all_parents_are_enabled(s, project_id) ==
    LET pl == list_project_parents(s, project_id)
    IN  IF pl.err = "None" THEN Raise("TypeError", "")
        ELSE IF pl.err # "ok" THEN Raise(pl.err, "")
        ELSE IF \E k \in 1..Len(pl.refs) : ~s[pl.refs[k]].enabled
        THEN Raise("ForbiddenNotSecurity", "disabled parents")
        ELSE Pass

\* Mutant: the subtree always passes for disabled.
SubtreeCheckSkipped(s, project_id, subtree_list) == TRUE

\* subtree_list = <<>> is the `not subtree_list` case: the subtree is listed.
_check_whole_subtree_is_disabled(s, project_id, subtree_list) ==
    LET l == IF subtree_list = <<>>
             THEN list_projects_in_subtree(s, project_id).refs
             ELSE subtree_list
    IN  ~ \E k \in 1..Len(l) : s[l[k]].enabled

_only_allow_enabled_to_update_cascade(f, original) ==
    IF \E attr \in f.has \ {"enabled"} : Get(f, attr) # Get(original, attr)
    THEN Raise("ValidationError", "cascade attribute") ELSE Pass

\* Mutant: the cascade writes no subtree member.
CascadeSkipsWrite(s, project_id, enabled) ==
    [projects |-> s, log |-> <<>>]

_update_project_enabled_cascade(s, project_id, enabled) ==
    LET subtree == list_projects_in_subtree(s, project_id).refs
        subtree_to_update ==
            SelectSeq(subtree, LAMBDA c : s[c].enabled # enabled)
        events(c) ==
            (IF ~enabled THEN <<[ev |-> "disabled", id |-> c]>> ELSE <<>>)
            \o <<[ev |-> "driver.update_project", id |-> c]>>
        RECURSIVE all(_)
        all(k) == IF k > Len(subtree_to_update) THEN <<>>
                  ELSE events(subtree_to_update[k]) \o all(k + 1)
    IN  [projects |-> [i \in Ids |->
                          IF i \in Range(subtree_to_update)
                          THEN [s[i] EXCEPT !.enabled = enabled] ELSE s[i]],
         log |-> all(1)]

\* Mutant: every project may change domain_id.
UpdateDomainUnchecked(s, project_id, original) == Pass

_check_update_domain(s, project_id, original) ==
    IF original.is_domain
    THEN Raise("ValidationError", "domain_id of a domain")
    ELSE IF ~Exists(s, original.parent_id) THEN Raise("ProjectNotFound", "")
    ELSE IF ~s[original.parent_id].is_domain
    THEN Raise("ValidationError", "domain_id of a non-root project")
    ELSE IF list_projects_in_subtree(s, project_id).refs # <<>>
    THEN Raise("ValidationError", "domain_id of a project with children")
    ELSE Pass

\* Mutant: a payload may move the project under another parent.
ParentChangeAllowed(f, original) == FALSE

\* The payload carries a parent_id other than the stored one.
parent_id_changed(f, original) ==
    "parent_id" \in f.has /\ f.parent_id # original.parent_id

_update_project(s, project_id, f, cascade) ==
    IF ~Exists(s, project_id) THEN Result("ProjectNotFound", "", s, <<>>)
    ELSE
    LET original == s[project_id]
        fed == IF original.is_domain
               THEN assert_domain_not_federated(project_id, original.name)
               ELSE Pass
        update_domain ==
            "domain_id" \in f.has /\ f.domain_id # original.domain_id
        dom == _check_update_domain(s, project_id, original)
        project_enabled == IF "enabled" \in f.has THEN f.enabled ELSE TRUE
        enabling == ~original.enabled /\ project_enabled
        disabling == original.enabled /\ ~project_enabled
        par == _assert_all_parents_are_enabled(s, project_id)
        note == IF disabling
                THEN <<[ev |-> "disabled", id |-> project_id]>> ELSE <<>>
        only == _only_allow_enabled_to_update_cascade(f, original)
        casc == IF cascade
                THEN _update_project_enabled_cascade(s, project_id,
                                                     project_enabled)
                ELSE [projects |-> s, log |-> <<>>]
        ref == Merged(original, f)
    IN  IF fed.err # "ok" THEN Result(fed.err, fed.msg, s, <<>>)
        ELSE IF parent_id_changed(f, original)
        THEN Result("ForbiddenNotSecurity", "parent_id", s, <<>>)
        ELSE IF "is_domain" \in f.has /\ f.is_domain # original.is_domain
        THEN Result("ValidationError", "is_domain", s, <<>>)
        ELSE IF update_domain /\ dom.err # "ok"
        THEN Result(dom.err, dom.msg, s, <<>>)
        ELSE IF enabling /\ par.err # "ok"
        THEN Result(par.err, par.msg, s, <<>>)
        ELSE IF /\ disabling /\ ~original.is_domain /\ ~cascade
                /\ ~_check_whole_subtree_is_disabled(s, project_id, <<>>)
        THEN Result("ForbiddenNotSecurity", "subtree enabled", s, <<>>)
        ELSE IF cascade /\ only.err # "ok"
        THEN Result(only.err, only.msg, s, note)
        ELSE IF driver_update_conflict(casc.projects, project_id, ref)
        THEN Result("Conflict", "", casc.projects, note \o casc.log)
        ELSE Result("ok", "", [casc.projects EXCEPT ![project_id] = ref],
                    note \o casc.log
                    \o <<[ev |-> "driver.update_project", id |-> project_id],
                         [ev |-> "updated", id |-> project_id]>>
                    \o (IF original.is_domain /\ disabling
                        THEN <<[ev |-> "disabled domain", id |-> project_id]>>
                        ELSE <<>>))

update_project(s, project_id, f, cascade) ==
    _update_project(s, project_id, f, cascade)

\* update_domain: the payload becomes a project payload with is_domain,
\* domain_id and parent_id set.
DomainPayload(d) ==
    [has |-> d.has \cup {"is_domain", "domain_id", "parent_id"},
     name |-> d.name, enabled |-> d.enabled,
     domain_id |-> None, parent_id |-> None, is_domain |-> TRUE]

\* Mutant: update_domain runs the update as a cascade.
UpdateDomainCascades(s, domain_id, d) ==
    _update_project(s, domain_id, DomainPayload(d), TRUE)

update_domain(s, domain_id, d) ==
    LET fed == IF "name" \in d.has
               THEN assert_domain_not_federated(domain_id, d.name)
               ELSE assert_domain_not_federated(domain_id, None)
        r == _update_project(s, domain_id, DomainPayload(d), FALSE)
    IN  IF fed.err # "ok" THEN Result(fed.err, fed.msg, s, <<>>)
        ELSE IF r.err = "ProjectNotFound"
        THEN Result("DomainNotFound", "", r.projects, r.log)
        ELSE r

_pre_delete_cleanup_project(project_id) ==
    <<[ev |-> "pre_delete", id |-> project_id]>>

_post_delete_cleanup_project(project_id) ==
    <<[ev |-> "post_delete", id |-> project_id]>>

RECURSIVE Flatten(_, _)
Flatten(Op(_), q) ==
    IF q = <<>> THEN <<>> ELSE Op(Head(q)) \o Flatten(Op, Tail(q))

\* A driver delete, with the rows that still name the deleted row as their
\* parent when the driver receives it.
DriverDelete(s, project_id) ==
    [ev |-> "driver.delete_project", id |-> project_id,
     children |-> Children(s, project_id)]

_delete_project(s, project_id, cascade) ==
    IF ~Exists(s, project_id) THEN Result("ProjectNotFound", "", s, <<>>)
    ELSE
    LET project == s[project_id]
        subtree_list == Reverse(list_projects_in_subtree(s, project_id).refs)
        project_list == Append(subtree_list, project_id)
    IN  IF project.is_domain /\ project.enabled
        THEN Result("ValidationError", "enabled domain", s, <<>>)
        ELSE IF ~is_leaf_project(s, project_id) /\ ~cascade
        THEN Result("ForbiddenNotSecurity", "not a leaf", s, <<>>)
        ELSE IF cascade
        THEN IF ~_check_whole_subtree_is_disabled(s, project_id, subtree_list)
             THEN Result("ForbiddenNotSecurity", "subtree enabled", s, <<>>)
             ELSE Result("ok", "",
                         [i \in Ids |-> IF i \in Range(project_list)
                                        THEN NoProject ELSE s[i]],
                         Flatten(_pre_delete_cleanup_project, project_list)
                         \o <<[ev |-> "driver.delete_projects_from_ids",
                               ids |-> project_list]>>
                         \o Flatten(_post_delete_cleanup_project, project_list))
        ELSE Result("ok", "", [s EXCEPT ![project_id] = NoProject],
                    _pre_delete_cleanup_project(project_id)
                    \o <<DriverDelete(s, project_id)>>
                    \o _post_delete_cleanup_project(project_id))

\* _delete_domain_contents: proj_refs is the listing taken at the start (s0
\* holds its rows); acc carries the table, the log, the examined set and the
\* first error that is not ProjectNotFound.  A listed project never acts as
\* a domain (its domain_id is set), so its delete_project is _delete_project.
RECURSIVE _delete_projects(_, _, _, _)
RECURSIVE _delete_children(_, _, _, _)
_delete_projects(acc, project, proj_refs, s0) ==
    IF acc.err # "ok" \/ project \in acc.examined THEN acc
    ELSE
    LET children ==
            SetToSeq({c \in proj_refs : s0[c].parent_id = project})
        a == _delete_children([acc EXCEPT !.examined = @ \cup {project}],
                              children, proj_refs, s0)
        d == _delete_project(a.projects, project, FALSE)
    IN  IF a.err # "ok" THEN a
        ELSE IF d.err = "ProjectNotFound" THEN a
        ELSE [err |-> d.err, msg |-> d.msg, projects |-> d.projects,
              log |-> a.log \o d.log, examined |-> a.examined]

_delete_children(acc, q, proj_refs, s0) ==
    IF q = <<>> THEN acc
    ELSE _delete_children(_delete_projects(acc, Head(q), proj_refs, s0),
                          Tail(q), proj_refs, s0)

_delete_domain_contents(s, domain_id) ==
    LET proj_refs == list_projects_in_domain(s, domain_id)
        roots == SetToSeq({x \in proj_refs : s[x].parent_id = domain_id})
    IN  _delete_children([err |-> "ok", msg |-> "", projects |-> s,
                          log |-> <<>>, examined |-> {}],
                         roots, proj_refs, s)

\* The state of both drivers, and a handler's result that carries it.
World(s, w, sn, reg) ==
    [projects |-> s, whitelisted |-> w, sensitive |-> sn, registration |-> reg]

WResult(e, m, w, l) ==
    [err |-> e, msg |-> m, projects |-> w.projects,
     whitelisted |-> w.whitelisted, sensitive |-> w.sensitive,
     registration |-> w.registration, log |-> l]

\* Domain config driver: delete_config_options of every option of a domain,
\* and release_registration.
delete_config_options(options, domain_id) ==
    {o \in options : o[1] # domain_id}

release_registration(reg, domain_id) ==
    IF reg = domain_id THEN None ELSE reg

\* delete_domain once the domain is known to be disabled.
delete_disabled_domain(w, domain_id) ==
    LET c == _delete_domain_contents(w.projects, domain_id)
        d == _delete_project(c.projects, domain_id, FALSE)
    IN  IF c.err # "ok"
        THEN WResult(c.err, c.msg, [w EXCEPT !.projects = c.projects], c.log)
        ELSE IF d.err # "ok"
        THEN WResult(d.err, d.msg, [w EXCEPT !.projects = d.projects],
                     c.log \o d.log)
        ELSE WResult("ok", "",
                     World(d.projects,
                           delete_config_options(w.whitelisted, domain_id),
                           delete_config_options(w.sensitive, domain_id),
                           release_registration(w.registration, domain_id)),
                     c.log \o d.log
                     \o <<[ev |-> "delete_config_options", id |-> domain_id],
                          [ev |-> "delete_config_options sensitive",
                           id |-> domain_id],
                          [ev |-> "release_registration", id |-> domain_id,
                           stored |-> Stored(d.projects)],
                          [ev |-> "deleted domain", id |-> domain_id]>>)

\* Mutant: the domain is not required to be disabled.
DeleteDomainUnchecked(w, domain_id) ==
    IF ~Exists(w.projects, domain_id) THEN WResult("DomainNotFound", "", w, <<>>)
    ELSE delete_disabled_domain(w, domain_id)

delete_domain(w, domain_id) ==
    IF ~Exists(w.projects, domain_id) THEN WResult("DomainNotFound", "", w, <<>>)
    ELSE IF w.projects[domain_id].enabled
    THEN WResult("ForbiddenNotSecurity", "enabled domain", w, <<>>)
    ELSE delete_disabled_domain(w, domain_id)

delete_project(w, project_id, cascade) ==
    IF ~Exists(w.projects, project_id) THEN WResult("ProjectNotFound", "", w, <<>>)
    ELSE IF w.projects[project_id].is_domain THEN delete_domain(w, project_id)
    ELSE LET r == _delete_project(w.projects, project_id, cascade)
         IN  WResult(r.err, r.msg, [w EXCEPT !.projects = r.projects], r.log)

----------------------------------------------------------------------------
\* Domain config manager.  A config is the sequence of its groups in the
\* order the dict yields them, each with the sequence of the options it
\* sets; option values are left out.  Of the whitelisted options only these
\* are modelled.
whitelisted_options == {<<"identity", "driver">>, <<"ldap", "url">>}
sensitive_options == {<<"ldap", "password">>}
ConfigGroups == {"identity", "ldap"}

\* Python's None where a group or option name is expected, and the truth
\* value of a name: None and the empty string are false.
Absent == "None"
Truthy(x) == x # "" /\ x # Absent

Group(group, options) == [group |-> group, options |-> options]

\* The <<group, option>> pairs a config sets.
OptionsOf(config) ==
    UNION {{<<config[i].group, config[i].options[j]>> :
               j \in DOMAIN config[i].options} : i \in DOMAIN config}

_assert_valid_group_and_option(group, option) ==
    IF ~Truthy(group) /\ ~Truthy(option) THEN Pass
    ELSE IF ~Truthy(group)
    THEN Raise("UnexpectedError", "option with no group")
    ELSE IF group \notin ConfigGroups
    THEN Raise("InvalidDomainConfig", "group")
    ELSE IF /\ Truthy(option)
            /\ <<group, option>> \notin whitelisted_options \cup sensitive_options
    THEN Raise("InvalidDomainConfig", "option")
    ELSE Pass

RECURSIVE _assert_valid_options(_, _)
_assert_valid_options(group, options) ==
    IF options = <<>> THEN Pass
    ELSE LET r == _assert_valid_group_and_option(group, Head(options))
         IN  IF r.err # "ok" THEN r
             ELSE _assert_valid_options(group, Tail(options))

RECURSIVE _assert_valid_groups(_)
_assert_valid_groups(config) ==
    IF config = <<>> THEN Pass
    ELSE IF Head(config).options = <<>>
    THEN Raise("InvalidDomainConfig", "empty group")
    ELSE LET r == _assert_valid_options(Head(config).group,
                                        Head(config).options)
         IN  IF r.err # "ok" THEN r ELSE _assert_valid_groups(Tail(config))

_assert_valid_config(config) ==
    IF config = <<>> THEN Raise("InvalidDomainConfig", "no options")
    ELSE _assert_valid_groups(config)

\* option in self.sensitive_options[group]: an unknown group is a KeyError.
_is_sensitive(o) == o \in sensitive_options

_config_to_list(config) ==
    IF \E o \in OptionsOf(config) : o[1] \notin ConfigGroups
    THEN [err |-> "KeyError", whitelisted |-> {}, sensitive |-> {}]
    ELSE [err |-> "ok",
          whitelisted |-> {o \in OptionsOf(config) : ~_is_sensitive(o)},
          sensitive |-> {o \in OptionsOf(config) : _is_sensitive(o)}]

create_config(w, domain_id, config) ==
    LET valid == _assert_valid_config(config)
        lists == _config_to_list(config)
    IN  IF valid.err # "ok" THEN WResult(valid.err, valid.msg, w, <<>>)
        ELSE IF lists.err # "ok" THEN WResult(lists.err, "", w, <<>>)
        ELSE WResult("ok", "",
                 World(w.projects,
                       delete_config_options(w.whitelisted, domain_id)
                       \cup {<<domain_id, o[1], o[2]>> : o \in lists.whitelisted},
                       delete_config_options(w.sensitive, domain_id)
                       \cup {<<domain_id, o[1], o[2]>> : o \in lists.sensitive},
                       w.registration),
                 <<>>)

\* driver.list_config_options of the whitelisted and of the sensitive table:
\* a group or an option that is false does not filter.
_get_config_with_sensitive_info(w, domain_id, group, option) ==
    {o \in w.whitelisted \cup w.sensitive :
        /\ o[1] = domain_id
        /\ Truthy(group) => o[2] = group
        /\ Truthy(option) => o[3] = option}

\* With a group and an option the request body is the dict of that option.
_assert_valid_update(w, domain_id, config, group, option) ==
    LET valid == _assert_valid_config(config)
        named == _assert_valid_group_and_option(group, option)
    IN  IF valid.err # "ok" THEN valid
        ELSE IF named.err # "ok" THEN named
        ELSE IF ~Truthy(group) THEN Pass
        ELSE IF \/ Len(config) # 1
                \/ Truthy(option) /\ Len(config[1].options) # 1
        THEN Raise("InvalidDomainConfig", "only that must be specified")
        ELSE IF config[1].group # group
        THEN Raise("InvalidDomainConfig", "another group")
        ELSE IF Truthy(option) /\ config[1].options[1] # option
        THEN Raise("InvalidDomainConfig", "another option")
        ELSE IF _get_config_with_sensitive_info(w, domain_id, group, option) = {}
        THEN Raise("DomainConfigNotFound", "")
        ELSE Pass

update_config(w, domain_id, config, group, option) ==
    LET update_cfg == IF Truthy(group) /\ Truthy(option)
                      THEN <<Group(group, config)>> ELSE config
        valid == _assert_valid_update(w, domain_id, update_cfg, group, option)
        lists == _config_to_list(update_cfg)
    IN  IF valid.err # "ok" THEN WResult(valid.err, valid.msg, w, <<>>)
        ELSE IF lists.err # "ok" THEN WResult(lists.err, "", w, <<>>)
        ELSE WResult("ok", "",
                 World(w.projects,
                       w.whitelisted
                       \cup {<<domain_id, o[1], o[2]>> : o \in lists.whitelisted},
                       w.sensitive
                       \cup {<<domain_id, o[1], o[2]>> : o \in lists.sensitive},
                       w.registration),
                 <<>>)

\* Domain config driver: the registration goes to the first domain to ask.
obtain_registration(reg, domain_id) ==
    IF reg = None THEN domain_id ELSE reg

----------------------------------------------------------------------------
\* Catalog manager (src/keystone/catalog/core.py).  Bounds: the ids of each
\* kind of catalog entity, the projects and users a catalog is computed for,
\* and the values a description, name or url takes.
MaxCatalogIds == 1
NumCatalogProjects == 2
NumUsers == 1
NumValues == 1

CatalogIds == 1..MaxCatalogIds
CatalogProjects == 1..NumCatalogProjects
Users == 1..NumUsers
Values == 1..NumValues

\* The ids of the endpoint groups.
MaxGroups == 2
GroupIds == 1..MaxGroups

NoEndpoint == [absent |-> TRUE]
NoGroup == [absent |-> TRUE]
\* The cache's NO_VALUE.
NoEntry == [absent |-> TRUE]

\* The filters of an endpoint group: pairs <<key, value>> an endpoint must
\* carry.
Filters ==
    {{<<"service_id", i>>} : i \in CatalogIds}
    \cup {{<<"region_id", i>>} : i \in CatalogIds}

\* The regions a driver that keeps parent_region_id holds at most.
MaxRegions == 4
RegionIds == 1..MaxRegions
NoRegion == [absent |-> TRUE]

\* The tables of the catalog driver.  A region and a service are kept as
\* their description or name (None when absent); region_hierarchy is the
\* parent_region_id column of the region table.
EmptyCatalog ==
    [regions |-> [i \in CatalogIds |-> None],
     region_hierarchy |-> [i \in RegionIds |-> NoRegion],
     services |-> [i \in CatalogIds |-> None],
     endpoints |-> [i \in CatalogIds |-> NoEndpoint],
     endpoint_projects |-> {},
     endpoint_groups |-> [i \in GroupIds |-> NoGroup],
     group_projects |-> {}]

\* COMPUTED_CATALOG_REGION: one entry for each memoized function and
\* (user_id, tenant_id) pair.
CatalogKeys == {"get_catalog", "get_v3_catalog"} \X Users \X CatalogProjects

EmptyRegion == [k \in CatalogKeys |-> NoEntry]

\* Mutant: the region is left as it is.
InvalidateNothing(cache) == cache

\* COMPUTED_CATALOG_REGION.invalidate(): every entry of the region goes.
invalidate_computed_catalog(cache) == EmptyRegion

\* driver.get_catalog is abstract: what it returns is computed from the
\* driver's tables for the pair, so it is kept as the tables it was computed
\* from.  The default get_v3_catalog is built from it.
driver_get_catalog(store, user_id, tenant_id) ==
    [user_id |-> user_id, tenant_id |-> tenant_id, tables |-> store]

driver_get_v3_catalog(store, user_id, tenant_id) ==
    [v3 |-> driver_get_catalog(store, user_id, tenant_id)]

\* The catalog manager's state, and how a call ends.
Cat(store, cache) == [store |-> store, cache |-> cache]

CResult(e, store, cache) == [err |-> e, store |-> store, cache |-> cache]

\* A memoized read: the cached value when the key holds one, else the
\* driver's value, which is stored under the key.
memoized_catalog(c, fn, user_id, tenant_id) ==
    LET key == <<fn, user_id, tenant_id>>
        v == IF fn = "get_catalog"
             THEN driver_get_catalog(c.store, user_id, tenant_id)
             ELSE driver_get_v3_catalog(c.store, user_id, tenant_id)
    IN  IF c.cache[key] # NoEntry
        THEN [value |-> c.cache[key].value, driver_called |-> FALSE,
              cache |-> c.cache]
        ELSE [value |-> v, driver_called |-> TRUE,
              cache |-> [c.cache EXCEPT ![key] = [value |-> v]]]

get_catalog(c, user_id, tenant_id) ==
    memoized_catalog(c, "get_catalog", user_id, tenant_id)

get_v3_catalog(c, user_id, tenant_id) ==
    memoized_catalog(c, "get_v3_catalog", user_id, tenant_id)

\* A successful write through a handler that invalidates the region.
Written(c, store) == CResult("ok", store, invalidate_computed_catalog(c.cache))

Failed(c, e) == CResult(e, c.store, c.cache)

\* The driver is abstract.  For a row it does not hold it raises NotFound or
\* a subclass of it: `raised` is that exception, and a handler written
\* without it is the handler over a driver that raises the subclass its
\* docstring names.
NotFoundErrors ==
    {"NotFound", "RegionNotFound", "ServiceNotFound", "EndpointNotFound"}

\* except exception.NotFound: raise exception.<Entity>NotFound(...)
except_NotFound(raised, specific) ==
    IF raised \in NotFoundErrors THEN specific ELSE raised

\* get_region and get_service are memoized by id; update and delete
\* invalidate the id they write, so a read is the driver's.
get_region_with(raised, c, region_id) ==
    IF c.store.regions[region_id] = None
    THEN [err |-> except_NotFound(raised, "RegionNotFound"), ref |-> None]
    ELSE [err |-> "ok", ref |-> c.store.regions[region_id]]

get_service_with(raised, c, service_id) ==
    IF c.store.services[service_id] = None
    THEN [err |-> except_NotFound(raised, "ServiceNotFound"), ref |-> None]
    ELSE [err |-> "ok", ref |-> c.store.services[service_id]]

create_region(c, region_id, description) ==
    IF c.store.regions[region_id] # None THEN Failed(c, "Conflict")
    ELSE Written(c, [c.store EXCEPT !.regions[region_id] = description])

update_region_with(raised, c, region_id, description) ==
    IF c.store.regions[region_id] = None THEN Failed(c, raised)
    ELSE Written(c, [c.store EXCEPT !.regions[region_id] = description])

update_region(c, region_id, description) ==
    update_region_with("RegionNotFound", c, region_id, description)

delete_region_with(raised, c, region_id) ==
    IF c.store.regions[region_id] = None THEN Failed(c, except_NotFound(raised, "RegionNotFound"))
    ELSE Written(c, [c.store EXCEPT !.regions[region_id] = None])

delete_region(c, region_id) ==
    delete_region_with("RegionNotFound", c, region_id)

create_service(c, service_id, name) ==
    IF c.store.services[service_id] # None THEN Failed(c, "Conflict")
    ELSE Written(c, [c.store EXCEPT !.services[service_id] = name])

update_service_with(raised, c, service_id, name) ==
    IF c.store.services[service_id] = None THEN Failed(c, raised)
    ELSE Written(c, [c.store EXCEPT !.services[service_id] = name])

update_service(c, service_id, name) ==
    update_service_with("ServiceNotFound", c, service_id, name)

\* The driver deletes the service; its endpoints go with it (the manager
\* invalidates get_endpoint for each of them).
delete_service_with(raised, c, service_id) ==
    IF c.store.services[service_id] = None THEN Failed(c, except_NotFound(raised, "ServiceNotFound"))
    ELSE Written(c,
             [c.store EXCEPT
                 !.services[service_id] = None,
                 !.endpoints =
                     [e \in CatalogIds |->
                         IF /\ c.store.endpoints[e] # NoEndpoint
                            /\ c.store.endpoints[e].service_id = service_id
                         THEN NoEndpoint ELSE c.store.endpoints[e]]])

delete_service(c, service_id) ==
    delete_service_with("ServiceNotFound", c, service_id)

_assert_region_exists(c, region_id) ==
    region_id = None \/ c.store.regions[region_id] # None

_assert_service_exists(c, service_id) ==
    service_id = None \/ c.store.services[service_id] # None

create_endpoint(c, endpoint_id, ref) ==
    IF ~_assert_region_exists(c, ref.region_id)
    THEN Failed(c, "ValidationError")
    ELSE IF ~_assert_service_exists(c, ref.service_id)
    THEN Failed(c, "ValidationError")
    ELSE IF c.store.endpoints[endpoint_id] # NoEndpoint
    THEN Failed(c, "Conflict")
    ELSE Written(c, [c.store EXCEPT !.endpoints[endpoint_id] = ref])

\* An update payload carries a url; a region_id or service_id of None is one
\* the payload does not carry.
update_endpoint_with(raised, c, endpoint_id, ref) ==
    IF ~_assert_region_exists(c, ref.region_id)
    THEN Failed(c, "ValidationError")
    ELSE IF ~_assert_service_exists(c, ref.service_id)
    THEN Failed(c, "ValidationError")
    ELSE IF c.store.endpoints[endpoint_id] = NoEndpoint
    THEN Failed(c, raised)
    ELSE LET old == c.store.endpoints[endpoint_id]
         IN  Written(c, [c.store EXCEPT !.endpoints[endpoint_id] =
                 [service_id |-> IF ref.service_id = None
                                 THEN old.service_id ELSE ref.service_id,
                  region_id |-> IF ref.region_id = None
                                THEN old.region_id ELSE ref.region_id,
                  url |-> ref.url]])

update_endpoint(c, endpoint_id, ref) ==
    update_endpoint_with("EndpointNotFound", c, endpoint_id, ref)

delete_endpoint_with(raised, c, endpoint_id) ==
    IF c.store.endpoints[endpoint_id] = NoEndpoint
    THEN Failed(c, except_NotFound(raised, "EndpointNotFound"))
    ELSE Written(c, [c.store EXCEPT !.endpoints[endpoint_id] = NoEndpoint])

delete_endpoint(c, endpoint_id) ==
    delete_endpoint_with("EndpointNotFound", c, endpoint_id)

add_endpoint_to_project(c, endpoint_id, project_id) ==
    IF <<endpoint_id, project_id>> \in c.store.endpoint_projects
    THEN Failed(c, "Conflict")
    ELSE Written(c, [c.store EXCEPT
             !.endpoint_projects = @ \cup {<<endpoint_id, project_id>>}])

remove_endpoint_from_project(c, endpoint_id, project_id) ==
    IF <<endpoint_id, project_id>> \notin c.store.endpoint_projects
    THEN Failed(c, "NotFound")
    ELSE Written(c, [c.store EXCEPT
             !.endpoint_projects = @ \ {<<endpoint_id, project_id>>}])

add_endpoint_group_to_project(c, endpoint_group_id, project_id) ==
    IF <<endpoint_group_id, project_id>> \in c.store.group_projects
    THEN Failed(c, "Conflict")
    ELSE Written(c, [c.store EXCEPT
             !.group_projects = @ \cup {<<endpoint_group_id, project_id>>}])

remove_endpoint_group_from_project(c, endpoint_group_id, project_id) ==
    IF <<endpoint_group_id, project_id>> \notin c.store.group_projects
    THEN Failed(c, "NotFound")
    ELSE Written(c, [c.store EXCEPT
             !.group_projects = @ \ {<<endpoint_group_id, project_id>>}])

\* The manager defines no create_endpoint_group, update_endpoint_group or
\* delete_endpoint_group: a call of one on the manager is the driver's
\* method, as get_endpoint_group is in get_endpoint_groups_for_project.
create_endpoint_group(c, endpoint_group_id, filters) ==
    IF c.store.endpoint_groups[endpoint_group_id] # NoGroup
    THEN Failed(c, "Conflict")
    ELSE CResult("ok",
             [c.store EXCEPT !.endpoint_groups[endpoint_group_id] =
                 [filters |-> filters]],
             c.cache)

update_endpoint_group(c, endpoint_group_id, filters) ==
    IF c.store.endpoint_groups[endpoint_group_id] = NoGroup
    THEN Failed(c, "NotFound")
    ELSE CResult("ok",
             [c.store EXCEPT !.endpoint_groups[endpoint_group_id] =
                 [filters |-> filters]],
             c.cache)

delete_endpoint_group(c, endpoint_group_id) ==
    IF c.store.endpoint_groups[endpoint_group_id] = NoGroup
    THEN Failed(c, "NotFound")
    ELSE CResult("ok",
             [c.store EXCEPT !.endpoint_groups[endpoint_group_id] = NoGroup],
             c.cache)

\* The keys of the memoized get_project_by_name.
NameKeys == Names \X (Ids \cup {None})

----------------------------------------------------------------------------
\* Ids are opaque: an unstored id stands for every unstored id, and the
\* least one is taken.
Fresh(s) ==
    IF Ids \ Stored(s) = {} THEN {}
    ELSE {CHOOSE i \in Ids \ Stored(s) : \A j \in Ids \ Stored(s) : i <= j}

\* The ids create_domain is tried on: a fresh one, and a stored one (the
\* driver's Conflict).
CreateIds(s) ==
    Fresh(s) \cup
    (IF Stored(s) = {} THEN {}
     ELSE {CHOOSE i \in Stored(s) : \A j \in Stored(s) : i <= j})

\* The values a domain_id or parent_id argument takes.
IdArgs(s) == Stored(s) \cup Fresh(s) \cup {None}

\* The payloads of create_project: a regular project under every domain_id
\* and parent_id, a project acting as a domain with and without them.
ProjectRefs(s) ==
    [name : Names, enabled : BOOLEAN, domain_id : IdArgs(s),
     parent_id : IdArgs(s), is_domain : {FALSE}]
    \cup
    [name : Names, enabled : BOOLEAN, domain_id : Fresh(s) \cup {None},
     parent_id : Fresh(s) \cup {None}, is_domain : {TRUE}]

DomainRefs == [name : Names, enabled : BOOLEAN]

\* The stores and the caches after construction.
InitStores ==
    /\ projects = [i \in Ids |-> NoProject]
    /\ whitelisted = {}
    /\ sensitive = {}
    /\ registration = None
    /\ catalog = EmptyCatalog
    /\ computed_catalog = EmptyRegion
    /\ project_cache = [i \in Ids |-> NoProject]
    /\ project_name_cache = [k \in NameKeys |-> NoProject]
    /\ domain_cache = [i \in Ids |-> NoProject]
    /\ domain_name_cache = [n \in Names |-> NoProject]
    /\ call = NoCall
    /\ returned = NotReturned
    /\ in_flight = NoneInFlight

Init ==
    /\ max_project_tree_depth \in 1..MaxDepth
    /\ multiple_domains_supported \in BOOLEAN
    /\ InitStores

CreateProject ==
    \E project_id \in Fresh(projects), p \in ProjectRefs(projects) :
        LET r == create_project(projects, project_id, p)
        IN  /\ Cardinality(Stored(r.projects)) <= MaxProjects
            /\ projects' = r.projects
            /\ UNCHANGED <<max_project_tree_depth, multiple_domains_supported, whitelisted, sensitive, registration>>
            /\ UNCHANGED <<catalogVars, cacheVars, callVars>>

CreateDomain ==
    \E domain_id \in CreateIds(projects), d \in DomainRefs :
        LET r == create_domain(projects, domain_id, d)
        IN  /\ Cardinality(Stored(r.projects)) <= MaxProjects
            /\ projects' = r.projects
            /\ UNCHANGED <<max_project_tree_depth, multiple_domains_supported, whitelisted, sensitive, registration>>
            /\ UNCHANGED <<catalogVars, cacheVars, callVars>>

\* The update payloads over attrs that carry at most n attributes.
PayloadsUpTo(s, attrs, n) ==
    UNION {[has : {h},
            name : IF "name" \in h THEN Names ELSE {1},
            enabled : IF "enabled" \in h THEN BOOLEAN ELSE {TRUE},
            domain_id : IF "domain_id" \in h THEN IdArgs(s) ELSE {None},
            parent_id : IF "parent_id" \in h THEN IdArgs(s) ELSE {None},
            is_domain : IF "is_domain" \in h THEN BOOLEAN ELSE {FALSE}]
           : h \in {hh \in SUBSET attrs : Cardinality(hh) <= n}}

Payloads(s, attrs) == PayloadsUpTo(s, attrs, MaxFields)

\* The ids a read, update or delete is tried on.
TargetIds(s) == Stored(s) \cup Fresh(s)

UpdateProject ==
    \E project_id \in TargetIds(projects), f \in Payloads(projects, Attrs),
       cascade \in BOOLEAN :
        LET r == update_project(projects, project_id, f, cascade)
        IN  /\ projects' = r.projects
            /\ UNCHANGED <<max_project_tree_depth, multiple_domains_supported, whitelisted, sensitive, registration>>
            /\ UNCHANGED <<catalogVars, cacheVars, callVars>>

UpdateDomain ==
    \E domain_id \in TargetIds(projects),
       d \in Payloads(projects, {"name", "enabled"}) :
        LET r == update_domain(projects, domain_id, d)
        IN  /\ projects' = r.projects
            /\ UNCHANGED <<max_project_tree_depth, multiple_domains_supported, whitelisted, sensitive, registration>>
            /\ UNCHANGED <<catalogVars, cacheVars, callVars>>

Here == World(projects, whitelisted, sensitive, registration)

Leaves(r) ==
    /\ projects' = r.projects
    /\ whitelisted' = r.whitelisted
    /\ sensitive' = r.sensitive
    /\ registration' = r.registration
    /\ UNCHANGED <<max_project_tree_depth, multiple_domains_supported>>
    /\ UNCHANGED <<catalogVars, cacheVars, callVars>>

DeleteProject ==
    \E project_id \in TargetIds(projects), cascade \in BOOLEAN :
        LET r == delete_project(Here, project_id, cascade)
        IN  /\ Leaves(r)

DeleteDomain ==
    \E domain_id \in TargetIds(projects) :
        LET r == delete_domain(Here, domain_id)
        IN  /\ Leaves(r)

Next ==
    \/ CreateProject
    \/ CreateDomain
    \/ UpdateProject
    \/ UpdateDomain
    \/ DeleteProject
    \/ DeleteDomain

\* The configs create_config is given: one that sets a whitelisted and a
\* sensitive option, and one for each way a config is invalid.
ConfigInputs ==
    {<<Group("ldap", <<"url", "password">>)>>,
     <<>>,
     <<Group("ldap", <<>>)>>,
     <<Group("other", <<"url">>)>>,
     <<Group("ldap", <<"other">>)>>}

\* The domain config API is called for a stored domain.
DomainIds(s) == {i \in Stored(s) : s[i].is_domain}

CreateConfig ==
    \E domain_id \in DomainIds(projects), config \in ConfigInputs :
        Leaves(create_config(Here, domain_id, config))

ObtainRegistration ==
    \E domain_id \in DomainIds(projects) :
        /\ registration' = obtain_registration(registration, domain_id)
        /\ UNCHANGED <<max_project_tree_depth, multiple_domains_supported, projects, whitelisted, sensitive>>
        /\ UNCHANGED <<catalogVars, cacheVars, callVars>>

NextConfig == Next \/ CreateConfig \/ ObtainRegistration

Spec == Init /\ [][Next]_vars

\* The domain config calls next to the resource calls, under the largest
\* configured depth.
InitConfig ==
    Init /\ max_project_tree_depth = MaxDepth /\ multiple_domains_supported

SpecConfig == InitConfig /\ [][NextConfig]_vars

\* The domain config calls alone, for the configs of at most MaxConfigGroups
\* groups of at most MaxConfigOptions options over these names.
MaxConfigGroups == 2
MaxConfigOptions == 1

GroupNames == {"", "ldap", "other"}
OptionNames == {"", "url", "password", "other"}

OptionSeqs ==
    UNION {[1..n -> OptionNames] : n \in 0..MaxConfigOptions}

ConfigRequests ==
    {c \in UNION {[1..n -> [group : GroupNames, options : OptionSeqs]] :
                     n \in 0..MaxConfigGroups} :
        \A i, j \in DOMAIN c : c[i].group = c[j].group => i = j}

GroupArgs == {Absent, "ldap", "other"}
OptionArgs == {Absent, "url", "other"}

\* The bodies update_config is given with a group and an option: with both
\* the body is the dict of the option.
UpdateBodies(group, option) ==
    IF Truthy(group) /\ Truthy(option) THEN OptionSeqs ELSE ConfigRequests

RequestCreateConfig ==
    \E domain_id \in DomainIds(projects), config \in ConfigRequests :
        Leaves(create_config(Here, domain_id, config))

UpdateConfig ==
    \E domain_id \in DomainIds(projects), group \in GroupArgs,
       option \in OptionArgs :
        \E config \in UpdateBodies(group, option) :
            Leaves(update_config(Here, domain_id, config, group, option))

NextDomainConfig == CreateDomain \/ RequestCreateConfig \/ UpdateConfig

SpecDomainConfig == InitConfig /\ [][NextDomainConfig]_vars

\* Cascade deletes of subtrees two levels deep: one domain and the regular
\* projects under it, under a depth limit that admits them.  A regular
\* project may bear the federated keyword as its name.
CascadeDepth == 3
MaxCascadeProjects == 4
CascadeNames == Names \cup {FederatedName}

InitCascade ==
    /\ max_project_tree_depth = CascadeDepth
    /\ multiple_domains_supported = TRUE
    /\ InitStores

CascadeCreateDomain ==
    \E domain_id \in Fresh(projects), enabled \in BOOLEAN :
        /\ Stored(projects) = {}
        /\ Leaves(WResult("ok", "",
                          [Here EXCEPT !.projects =
                              create_domain(projects, domain_id,
                                  [name |-> 1, enabled |-> enabled]).projects],
                          <<>>))

CascadeCreateProject ==
    \E project_id \in Fresh(projects), name \in CascadeNames,
       enabled \in BOOLEAN, parent_id \in Stored(projects) :
        LET domain_id == IF projects[parent_id].is_domain THEN parent_id
                         ELSE projects[parent_id].domain_id
            r == create_project(projects, project_id,
                     [name |-> name, enabled |-> enabled,
                      domain_id |-> domain_id, parent_id |-> parent_id,
                      is_domain |-> FALSE])
        IN  /\ Cardinality(Stored(r.projects)) <= MaxCascadeProjects
            /\ Leaves(WResult(r.err, r.msg, [Here EXCEPT !.projects = r.projects],
                              r.log))

CascadeDeleteProject ==
    \E project_id \in Stored(projects), cascade \in BOOLEAN :
        Leaves(delete_project(Here, project_id, cascade))

\* update_project with a payload that carries enabled = false alone.
CascadeDisableProject ==
    \E project_id \in Stored(projects), cascade \in BOOLEAN :
        LET r == update_project(projects, project_id,
                     [has |-> {"enabled"}, name |-> 1, enabled |-> FALSE,
                      domain_id |-> None, parent_id |-> None,
                      is_domain |-> FALSE],
                     cascade)
        IN  Leaves(WResult(r.err, r.msg, [Here EXCEPT !.projects = r.projects],
                           r.log))

NextCascade ==
    \/ CascadeCreateDomain
    \/ CascadeCreateProject
    \/ CascadeDisableProject
    \/ CascadeDeleteProject

SpecCascade == InitCascade /\ [][NextCascade]_vars

\* Catalog manager: the calls.
CatHere == Cat(catalog, computed_catalog)

CatLeaves(r) ==
    /\ catalog' = r.store
    /\ computed_catalog' = r.cache
    /\ UNCHANGED <<resourceVars, cacheVars, callVars>>

EndpointRefs ==
    [service_id : CatalogIds, region_id : CatalogIds \cup {None}, url : Values]

EndpointUpdates ==
    [service_id : CatalogIds \cup {None}, region_id : CatalogIds \cup {None},
     url : Values]

CreateRegion ==
    \E id \in CatalogIds, v \in Values : CatLeaves(create_region(CatHere, id, v))

UpdateRegion ==
    \E id \in CatalogIds, v \in Values : CatLeaves(update_region(CatHere, id, v))

DeleteRegion ==
    \E id \in CatalogIds : CatLeaves(delete_region(CatHere, id))

CreateService ==
    \E id \in CatalogIds, v \in Values : CatLeaves(create_service(CatHere, id, v))

UpdateService ==
    \E id \in CatalogIds, v \in Values : CatLeaves(update_service(CatHere, id, v))

DeleteService ==
    \E id \in CatalogIds : CatLeaves(delete_service(CatHere, id))

CreateEndpoint ==
    \E id \in CatalogIds, ref \in EndpointRefs :
        CatLeaves(create_endpoint(CatHere, id, ref))

UpdateEndpoint ==
    \E id \in CatalogIds, ref \in EndpointUpdates :
        CatLeaves(update_endpoint(CatHere, id, ref))

DeleteEndpoint ==
    \E id \in CatalogIds : CatLeaves(delete_endpoint(CatHere, id))

AddEndpointToProject ==
    \E id \in CatalogIds, p \in CatalogProjects :
        CatLeaves(add_endpoint_to_project(CatHere, id, p))

RemoveEndpointFromProject ==
    \E id \in CatalogIds, p \in CatalogProjects :
        CatLeaves(remove_endpoint_from_project(CatHere, id, p))

AddEndpointGroupToProject ==
    \E id \in CatalogIds, p \in CatalogProjects :
        CatLeaves(add_endpoint_group_to_project(CatHere, id, p))

RemoveEndpointGroupFromProject ==
    \E id \in CatalogIds, p \in CatalogProjects :
        CatLeaves(remove_endpoint_group_from_project(CatHere, id, p))

CreateEndpointGroup ==
    \E id \in CatalogIds, f \in Filters :
        CatLeaves(create_endpoint_group(CatHere, id, f))

UpdateEndpointGroup ==
    \E id \in CatalogIds, f \in Filters :
        CatLeaves(update_endpoint_group(CatHere, id, f))

DeleteEndpointGroup ==
    \E id \in CatalogIds : CatLeaves(delete_endpoint_group(CatHere, id))

GetCatalog ==
    \E u \in Users, p \in CatalogProjects :
        /\ computed_catalog' = get_catalog(CatHere, u, p).cache
        /\ UNCHANGED <<catalog, resourceVars, cacheVars, callVars>>

GetV3Catalog ==
    \E u \in Users, p \in CatalogProjects :
        /\ computed_catalog' = get_v3_catalog(CatHere, u, p).cache
        /\ UNCHANGED <<catalog, resourceVars, cacheVars, callVars>>

NextCatalog ==
    \/ CreateRegion \/ UpdateRegion \/ DeleteRegion
    \/ CreateService \/ UpdateService \/ DeleteService
    \/ CreateEndpoint \/ UpdateEndpoint \/ DeleteEndpoint
    \/ AddEndpointToProject \/ RemoveEndpointFromProject
    \/ AddEndpointGroupToProject \/ RemoveEndpointGroupFromProject
    \/ CreateEndpointGroup \/ UpdateEndpointGroup \/ DeleteEndpointGroup
    \/ GetCatalog \/ GetV3Catalog

SpecCatalog == InitConfig /\ [][NextCatalog]_vars

----------------------------------------------------------------------------
\* Manager with caching on: MEMOIZE keeps what get_project,
\* get_project_by_name, get_domain and get_domain_by_name returned, under
\* the arguments of the call, until the key is invalidated.  A raised
\* exception is not kept.
Caches(pc, nc, dc, dn) ==
    [project |-> pc, name |-> nc, domain |-> dc, domain_name |-> dn]

CacheHit(cache, key) == key \in DOMAIN cache /\ cache[key] # NoProject

\* <fn>.invalidate(self, key) and <fn>.set(value, self, key).
invalidate(cache, key) ==
    IF key \in DOMAIN cache THEN [cache EXCEPT ![key] = NoProject] ELSE cache

set(cache, key, value) == [cache EXCEPT ![key] = value]

get_project(s, k, project_id) ==
    IF CacheHit(k.project, project_id)
    THEN [err |-> "ok", ref |-> k.project[project_id], caches |-> k]
    ELSE IF ~Exists(s, project_id)
    THEN [err |-> "ProjectNotFound", ref |-> NoProject, caches |-> k]
    ELSE [err |-> "ok", ref |-> s[project_id],
          caches |-> [k EXCEPT !.project = set(@, project_id, s[project_id])]]

\* driver.get_project_by_name: the row is returned with its id.
driver_get_project_by_name(s, project_name, domain_id) ==
    LET found == {j \in Stored(s) :
                     s[j].name = project_name /\ s[j].domain_id = domain_id}
    IN  IF found = {} THEN NoProject
        ELSE LET j == CHOOSE j \in found : \A i \in found : j <= i
             IN  [id |-> j, ref |-> s[j]]

get_project_by_name(s, k, project_name, domain_id) ==
    LET key == <<project_name, domain_id>>
        v == driver_get_project_by_name(s, project_name, domain_id)
    IN  IF CacheHit(k.name, key)
        THEN [err |-> "ok", ref |-> k.name[key], caches |-> k]
        ELSE IF v = NoProject
        THEN [err |-> "ProjectNotFound", ref |-> NoProject, caches |-> k]
        ELSE [err |-> "ok", ref |-> v,
              caches |-> [k EXCEPT !.name = set(@, key, v)]]

\* The memoized get_domain.
memoized_get_domain(s, k, domain_id) ==
    IF CacheHit(k.domain, domain_id)
    THEN [err |-> "ok", ref |-> k.domain[domain_id], caches |-> k]
    ELSE IF get_domain(s, domain_id).err # "ok"
    THEN [err |-> "DomainNotFound", ref |-> NoProject, caches |-> k]
    ELSE [err |-> "ok", ref |-> s[domain_id],
          caches |-> [k EXCEPT !.domain = set(@, domain_id, s[domain_id])]]

\* The memoized get_domain_by_name: the project of that name with no
\* domain_id, which _get_domain_from_project refuses unless it acts as a
\* domain.
get_domain_by_name(s, k, domain_name) ==
    LET v == driver_get_project_by_name(s, domain_name, None)
    IN  IF CacheHit(k.domain_name, domain_name)
        THEN [err |-> "ok", ref |-> k.domain_name[domain_name], caches |-> k]
        ELSE IF v = NoProject
        THEN [err |-> "DomainNotFound", ref |-> NoProject, caches |-> k]
        ELSE IF ~v.ref.is_domain
        THEN [err |-> "DomainNotFound", ref |-> NoProject, caches |-> k]
        ELSE [err |-> "ok", ref |-> v,
              caches |-> [k EXCEPT !.domain_name = set(@, domain_name, v)]]

\* How a call ends with caching on.
KResult(e, s, k) == [err |-> e, projects |-> s, caches |-> k]

\* _enforce_project_constraints of a regular project: the domain and the
\* parent are read through the caches, the parents of the parent from the
\* driver.
_enforce_regular_cached(s, k, project) ==
    LET dom == memoized_get_domain(s, k, project.domain_id)
        par == get_project(s, dom.caches, project.parent_id)
        parent_ref == par.ref
        pl == driver_list_project_parents(s, project.parent_id)
        parents_list == Append(pl.refs, project.parent_id)
    IN  IF dom.err # "ok" THEN KResult(dom.err, s, dom.caches)
        ELSE IF par.err # "ok" THEN KResult(par.err, s, par.caches)
        ELSE IF parent_ref.is_domain /\ project.parent_id # project.domain_id
        THEN KResult("ValidationError", s, par.caches)
        ELSE IF ~parent_ref.is_domain
                /\ parent_ref.domain_id # project.domain_id
        THEN KResult("ValidationError", s, par.caches)
        ELSE IF pl.err = "None" THEN KResult("AttributeError", s, par.caches)
        ELSE IF pl.err # "ok" THEN KResult(pl.err, s, par.caches)
        ELSE IF \/ \E n \in 1..Len(pl.refs) : ~s[pl.refs[n]].enabled
                \/ ~parent_ref.enabled
        THEN KResult("ValidationError", s, par.caches)
        ELSE KResult(_assert_max_hierarchy_depth(parents_list).err, s,
                     par.caches)

\* create_project with caching on: the created row is set in both caches.
create_project_cached(s, k, project_id, p) ==
    LET project == [p EXCEPT !.parent_id =
                       IF p.parent_id = None THEN p.domain_id ELSE p.parent_id]
        c == IF project.is_domain
             THEN KResult(_assert_is_domain_project_constraints(
                              project_id, project).err, s, k)
             ELSE _enforce_regular_cached(s, k, project)
    IN  IF c.err # "ok" THEN c
        ELSE IF driver_create_conflict(s, project_id, project)
        THEN KResult("Conflict", s, c.caches)
        ELSE KResult("ok", [s EXCEPT ![project_id] = project],
                 [c.caches EXCEPT
                     !.project = set(@, project_id, project),
                     !.name = set(@, <<project.name, project.domain_id>>,
                                  [id |-> project_id, ref |-> project])])

\* _update_project reaches a list_project_parents or list_projects_in_subtree
\* of the manager: _assert_valid_project_id reads get_project(project_id).
update_reads_get_project(s, project_id, f, cascade) ==
    LET original == s[project_id]
        project_enabled == IF "enabled" \in f.has THEN f.enabled ELSE TRUE
        domain_id_changes ==
            "domain_id" \in f.has /\ f.domain_id # original.domain_id
    IN  /\ ~(original.is_domain
             /\ assert_domain_not_federated(project_id, original.name).err
                    # "ok")
        /\ ~parent_id_changed(f, original)
        /\ ~("is_domain" \in f.has /\ f.is_domain # original.is_domain)
        /\ IF domain_id_changes
           THEN /\ ~original.is_domain
                /\ Exists(s, original.parent_id)
                /\ s[original.parent_id].is_domain
           ELSE \/ ~original.enabled /\ project_enabled
                \/ original.enabled /\ ~project_enabled
                   /\ ~original.is_domain /\ ~cascade
                \/ cascade
                   /\ _only_allow_enabled_to_update_cascade(f, original).err
                          = "ok"

\* _update_project with caching on, r being how _update_project ends:
\* after the driver write, the keys of the updated project are invalidated
\* (its id, its original name and domain_id).  The subtree members written
\* by _update_project_enabled_cascade have no key invalidated.
update_invalidations(s, k, project_id, f, cascade, r) ==
    IF ~Exists(s, project_id) THEN KResult(r.err, r.projects, k)
    ELSE
    LET original == s[project_id]
        read == IF update_reads_get_project(s, project_id, f, cascade)
                THEN get_project(s, k, project_id).caches ELSE k
    IN  IF r.err # "ok" THEN KResult(r.err, r.projects, read)
        ELSE KResult("ok", r.projects,
                 [read EXCEPT
                     !.project = invalidate(@, project_id),
                     !.name = invalidate(@, <<original.name,
                                              original.domain_id>>)])

_update_project_cached(s, k, project_id, f, cascade) ==
    update_invalidations(s, k, project_id, f, cascade,
                         _update_project(s, project_id, f, cascade))

\* The get_domain and get_domain_by_name keys a successful call invalidates.
domain_invalidations(r, domain_id, domain_name) ==
    KResult("ok", r.projects,
            [r.caches EXCEPT !.domain = invalidate(@, domain_id),
                             !.domain_name = invalidate(@, domain_name)])

\* update_project, r being how _update_project ends: for a project acting
\* as a domain get_domain is invalidated under the id and
\* get_domain_by_name under the name of the returned project.
update_project_returns(r, project_id) ==
    IF r.err = "ok" /\ r.projects[project_id].is_domain
    THEN domain_invalidations(r, project_id, r.projects[project_id].name)
    ELSE r

update_project_cached(s, k, project_id, f, cascade) ==
    update_project_returns(
        _update_project_cached(s, k, project_id, f, cascade), project_id)

\* update_domain, r being how _update_project ends: get_domain is
\* invalidated under the id and get_domain_by_name under the name the
\* domain had.
update_domain_returns(r, s, domain_id) ==
    IF r.err = "ProjectNotFound"
    THEN KResult("DomainNotFound", r.projects, r.caches)
    ELSE IF r.err # "ok" THEN r
    ELSE domain_invalidations(r, domain_id, s[domain_id].name)

update_domain_cached(s, k, domain_id, d) ==
    IF (IF "name" \in d.has
        THEN assert_domain_not_federated(domain_id, d.name)
        ELSE assert_domain_not_federated(domain_id, None)).err # "ok"
    THEN KResult("AssertionError", s, k)
    ELSE update_domain_returns(
             _update_project_cached(s, k, domain_id, DomainPayload(d), FALSE),
             s, domain_id)

\* _post_delete_cleanup_project of every project the call deleted: the id
\* and the <<name, domain_id>> of the deleted row are invalidated.
post_delete_invalidations(s, k, l) ==
    LET deleted == {l[n].id : n \in {m \in 1..Len(l) : l[m].ev = "post_delete"}}
    IN  [k EXCEPT
            !.project = [i \in Ids |->
                            IF i \in deleted THEN NoProject ELSE k.project[i]],
            !.name = [key \in NameKeys |->
                         IF \E i \in deleted :
                                key = <<s[i].name, s[i].domain_id>>
                         THEN NoProject ELSE k.name[key]]]

\* The caches delete_project leaves, r being how the call ended.  A cascade
\* delete of a regular project lists the subtree through the manager, which
\* reads get_project(project_id); delete_domain invalidates get_domain and
\* get_domain_by_name once the domain is deleted.
delete_project_caches(s, k, project_id, cascade, r) ==
    IF ~Exists(s, project_id) THEN k
    ELSE LET read == IF cascade /\ ~s[project_id].is_domain
                     THEN get_project(s, k, project_id).caches ELSE k
             k1 == post_delete_invalidations(s, read, r.log)
         IN  IF r.err = "ok" /\ s[project_id].is_domain
             THEN [k1 EXCEPT
                      !.domain = invalidate(@, project_id),
                      !.domain_name = invalidate(@, s[project_id].name)]
             ELSE k1

KHere ==
    Caches(project_cache, project_name_cache, domain_cache, domain_name_cache)

KLeaves(k) ==
    /\ project_cache' = k.project
    /\ project_name_cache' = k.name
    /\ domain_cache' = k.domain
    /\ domain_name_cache' = k.domain_name

\* The projects stored with caching on, and the attributes an update
\* payload carries.
MaxCachedProjects == 2

CachedAttrs == {"name", "enabled", "domain_id"}

CachedCreateProject ==
    \E project_id \in Fresh(projects), p \in ProjectRefs(projects) :
        LET r == create_project_cached(projects, KHere, project_id, p)
        IN  /\ Cardinality(Stored(r.projects)) <= MaxCachedProjects
            /\ projects' = r.projects
            /\ KLeaves(r.caches)
            /\ UNCHANGED <<max_project_tree_depth, multiple_domains_supported, whitelisted, sensitive,
                           registration, catalogVars, callVars>>

CachedCreateDomain ==
    \E domain_id \in CreateIds(projects), d \in DomainRefs :
        LET r == create_project_cached(projects, KHere, domain_id,
                                       _get_project_from_domain(d))
        IN  /\ Cardinality(Stored(r.projects)) <= MaxCachedProjects
            /\ projects' = r.projects
            /\ KLeaves(r.caches)
            /\ UNCHANGED <<max_project_tree_depth, multiple_domains_supported, whitelisted, sensitive,
                           registration, catalogVars, callVars>>

CachedUpdateProject ==
    \E project_id \in TargetIds(projects), f \in Payloads(projects, CachedAttrs),
       cascade \in BOOLEAN :
        LET r == update_project_cached(projects, KHere, project_id, f, cascade)
        IN  /\ projects' = r.projects
            /\ KLeaves(r.caches)
            /\ UNCHANGED <<max_project_tree_depth, multiple_domains_supported, whitelisted, sensitive,
                           registration, catalogVars, callVars>>

CachedDeleteProject ==
    \E project_id \in TargetIds(projects), cascade \in BOOLEAN :
        LET r == delete_project(Here, project_id, cascade)
        IN  /\ projects' = r.projects
            /\ whitelisted' = r.whitelisted
            /\ sensitive' = r.sensitive
            /\ registration' = r.registration
            /\ KLeaves(delete_project_caches(projects, KHere, project_id,
                                             cascade, r))
            /\ UNCHANGED <<max_project_tree_depth, multiple_domains_supported, catalogVars, callVars>>

GetProject ==
    \E project_id \in TargetIds(projects) :
        /\ KLeaves(get_project(projects, KHere, project_id).caches)
        /\ UNCHANGED <<resourceVars, catalogVars, callVars>>

GetProjectByName ==
    \E key \in NameKeys :
        /\ KLeaves(get_project_by_name(projects, KHere, key[1], key[2]).caches)
        /\ UNCHANGED <<resourceVars, catalogVars, callVars>>

NextCached ==
    \/ CachedCreateProject
    \/ CachedCreateDomain
    \/ CachedUpdateProject
    \/ CachedDeleteProject
    \/ GetProject
    \/ GetProjectByName

SpecCached == InitConfig /\ [][NextCached]_vars

\* The projects acting as domains alone, with the memoized get_domain and
\* get_domain_by_name read between the writes.
DomainAttrs == {"name", "enabled"}

DomainUpdateProject ==
    \E project_id \in DomainIds(projects), f \in Payloads(projects, DomainAttrs) :
        LET r == update_project_cached(projects, KHere, project_id, f, FALSE)
        IN  /\ projects' = r.projects
            /\ KLeaves(r.caches)
            /\ UNCHANGED <<max_project_tree_depth, multiple_domains_supported,
                           whitelisted, sensitive, registration,
                           catalogVars, callVars>>

CachedUpdateDomain ==
    \E domain_id \in TargetIds(projects), d \in Payloads(projects, DomainAttrs) :
        LET r == update_domain_cached(projects, KHere, domain_id, d)
        IN  /\ projects' = r.projects
            /\ KLeaves(r.caches)
            /\ UNCHANGED <<max_project_tree_depth, multiple_domains_supported,
                           whitelisted, sensitive, registration,
                           catalogVars, callVars>>

GetDomain ==
    \E domain_id \in TargetIds(projects) :
        /\ KLeaves(memoized_get_domain(projects, KHere, domain_id).caches)
        /\ UNCHANGED <<resourceVars, catalogVars, callVars>>

GetDomainByName ==
    \E domain_name \in Names :
        /\ KLeaves(get_domain_by_name(projects, KHere, domain_name).caches)
        /\ UNCHANGED <<resourceVars, catalogVars, callVars>>

NextDomainCache ==
    \/ CachedCreateDomain
    \/ DomainUpdateProject
    \/ CachedUpdateDomain
    \/ CachedDeleteProject
    \/ GetDomain
    \/ GetDomainByName

SpecDomainCache == InitConfig /\ [][NextDomainCache]_vars

----------------------------------------------------------------------------
\* Catalog manager: the endpoints of a project.  An endpoint ref carries
\* service_id, region_id and url; a filter may also name a key no endpoint
\* carries.
EndpointFields == {"service_id", "region_id", "url"}

Field(endpoint, key) ==
    CASE key = "service_id" -> endpoint.service_id
      [] key = "region_id" -> endpoint.region_id
      [] key = "url" -> endpoint.url

EndpointFilters ==
    Filters \cup {{<<"name", v>>} : v \in Values}

\* get_endpoint is memoized by id; update_endpoint, delete_endpoint and
\* delete_service invalidate the ids they write, so a read is the driver's.
get_endpoint_with(raised, c, endpoint_id) ==
    IF c.store.endpoints[endpoint_id] = NoEndpoint
    THEN [err |-> except_NotFound(raised, "EndpointNotFound"),
          ref |-> NoEndpoint]
    ELSE [err |-> "ok", ref |-> c.store.endpoints[endpoint_id]]

get_endpoint(c, endpoint_id) ==
    get_endpoint_with("EndpointNotFound", c, endpoint_id)

\* driver.list_endpoints.
list_endpoints(c) ==
    {e \in CatalogIds : c.store.endpoints[e] # NoEndpoint}

\* The project is read through resource_api.get_project; a membership of a
\* group the driver does not hold ends the list comprehension with
\* EndpointGroupNotFound, and the handler answers [].
get_endpoint_groups_for_project(s, k, c, project_id) ==
    LET p == get_project(s, k, project_id)
        refs == {g \in GroupIds : <<g, project_id>> \in c.store.group_projects}
    IN  IF p.err # "ok"
        THEN [err |-> p.err, groups |-> {}, caches |-> p.caches]
        ELSE IF \E g \in refs : c.store.endpoint_groups[g] = NoGroup
        THEN [err |-> "ok", groups |-> {}, caches |-> p.caches]
        ELSE [err |-> "ok", groups |-> refs, caches |-> p.caches]

\* endpoint[key] of a key the endpoint does not carry is a KeyError.
get_endpoints_filtered_by_endpoint_group(c, endpoint_group_id) ==
    LET endpoints == list_endpoints(c)
        filters == c.store.endpoint_groups[endpoint_group_id].filters
    IN  IF endpoints # {} /\ \E f \in filters : f[1] \notin EndpointFields
        THEN [err |-> "KeyError", ids |-> {}]
        ELSE [err |-> "ok",
              ids |-> {e \in endpoints :
                          \A f \in filters :
                              Field(c.store.endpoints[e], f[1]) = f[2]}]

\* Mutant: the endpoints of the groups are left out.
NoGroupEndpoints(c, endpoint_group_id) == [err |-> "ok", ids |-> {}]

LResult(e, v, c, k) ==
    [err |-> e, value |-> v, store |-> c.store, cache |-> c.cache,
     caches |-> k]

list_endpoints_for_project(s, k, c, project_id) ==
    LET refs == {e \in CatalogIds :
                    <<e, project_id>> \in c.store.endpoint_projects}
        bad == {e \in refs : get_endpoint(c, e).err # "ok"}
        \* remove_endpoint_from_project of each bad reference
        healed ==
            IF bad = {} THEN c
            ELSE Cat([c.store EXCEPT
                         !.endpoint_projects = @ \ (bad \X {project_id})],
                     invalidate_computed_catalog(c.cache))
        groups == get_endpoint_groups_for_project(s, k, healed, project_id)
        via == [g \in groups.groups |->
                   get_endpoints_filtered_by_endpoint_group(healed, g)]
        ids == (refs \ bad) \cup UNION {via[g].ids : g \in groups.groups}
    IN  IF groups.err # "ok"
        THEN LResult(groups.err, <<>>, healed, groups.caches)
        ELSE IF \E g \in groups.groups : via[g].err # "ok"
        THEN LResult("KeyError", <<>>, healed, groups.caches)
        ELSE LResult("ok", [e \in ids |-> healed.store.endpoints[e]],
                     healed, groups.caches)

\* The calls.
EndpointsCreateDomain ==
    \E domain_id \in CatalogProjects, d \in DomainRefs :
        LET r == create_project_cached(projects, KHere, domain_id,
                                       _get_project_from_domain(d))
        IN  /\ d.enabled
            /\ projects' = r.projects
            /\ KLeaves(r.caches)
            /\ UNCHANGED <<max_project_tree_depth, multiple_domains_supported, whitelisted, sensitive,
                           registration, catalogVars, callVars>>

CreateFilteredEndpointGroup ==
    \E id \in GroupIds, f \in EndpointFilters :
        CatLeaves(create_endpoint_group(CatHere, id, f))

DeleteFilteredEndpointGroup ==
    \E id \in GroupIds : CatLeaves(delete_endpoint_group(CatHere, id))

AddFilteredEndpointGroupToProject ==
    \E id \in GroupIds, p \in CatalogProjects :
        CatLeaves(add_endpoint_group_to_project(CatHere, id, p))

ListEndpointsForProject ==
    \E p \in CatalogProjects :
        LET r == list_endpoints_for_project(projects, KHere, CatHere, p)
        IN  /\ catalog' = r.store
            /\ computed_catalog' = r.cache
            /\ KLeaves(r.caches)
            /\ UNCHANGED <<resourceVars, callVars>>

NextEndpoints ==
    \/ EndpointsCreateDomain
    \/ CreateRegion \/ CreateService
    \/ CreateEndpoint \/ DeleteEndpoint
    \/ AddEndpointToProject
    \/ CreateFilteredEndpointGroup \/ DeleteFilteredEndpointGroup
    \/ AddFilteredEndpointGroupToProject
    \/ ListEndpointsForProject

SpecEndpoints == InitConfig /\ [][NextEndpoints]_vars

----------------------------------------------------------------------------
\* CatalogDriverV8.get_v3_catalog: the V3 catalog built from the V2 catalog.
\* An attribute name is the sequence of its characters; a region name, a
\* service type and an attribute value are numbers.  A V2 service is the
\* sequence of its <<attribute, value>> items in the order the dict yields
\* them.
MaxAttrs == 2
MaxServices == 2
NumRegions == 2
NumTypes == 2

AttrType == <<"t", "y", "p", "e">>
AttrEndpoints == <<"e", "n", "d", "p", "o", "i", "n", "t", "s">>
AttrNames ==
    {<<"p", "U", "R", "L">>, <<"U", "R", "L">>, <<"u", "r", "l">>,
     <<"n", "a", "m", "e">>, AttrType, AttrEndpoints}

\* attr.endswith('URL') and attr[:-len('URL')].
endswith_URL(attr) ==
    Len(attr) >= 3 /\ SubSeq(attr, Len(attr) - 2, Len(attr)) = <<"U", "R", "L">>

v3_interface(attr) == SubSeq(attr, 1, Len(attr) - 3)

\* A value of the V3 service dict: a string, or the list of endpoints.
Str(v) == [is_list |-> FALSE, str |-> v, list |-> <<>>]
List(l) == [is_list |-> TRUE, str |-> None, list |-> l]

\* One turn of `for attr, value in service.items()`.  Appending to an
\* 'endpoints' that an attribute of that name replaced raises
\* AttributeError.
v3_service_item(acc, item, region_name) ==
    LET attr == item[1]
        value == item[2]
    IN  IF acc.err # "ok" THEN acc
        ELSE IF endswith_URL(attr)
        THEN IF ~acc.service_v3[AttrEndpoints].is_list
             THEN [acc EXCEPT !.err = "AttributeError"]
             ELSE [acc EXCEPT !.service_v3[AttrEndpoints] =
                      List(Append(@.list,
                                  [interface |-> v3_interface(attr),
                                   region |-> region_name,
                                   url |-> value]))]
        ELSE [acc EXCEPT !.service_v3 = (attr :> Str(value)) @@ @]

RECURSIVE v3_service_items(_, _, _)
v3_service_items(acc, items, region_name) ==
    IF items = <<>> THEN acc
    ELSE v3_service_items(v3_service_item(acc, Head(items), region_name),
                          Tail(items), region_name)

v3_service(region_name, service_type, service) ==
    v3_service_items(
        [err |-> "ok",
         service_v3 |-> (AttrType :> Str(service_type))
                        @@ (AttrEndpoints :> List(<<>>))],
        service, region_name)

\* The <<region, service type>> pairs in the order the two loops visit them.
v2_pairs(v2_catalog) ==
    LET RECURSIVE regions(_)
        regions(q) ==
            IF q = <<>> THEN <<>>
            ELSE [n \in 1..Cardinality(DOMAIN v2_catalog[Head(q)]) |->
                     <<Head(q), SetToSeq(DOMAIN v2_catalog[Head(q)])[n]>>]
                 \o regions(Tail(q))
    IN  regions(SetToSeq(DOMAIN v2_catalog))

build_v3_catalog(v2_catalog) ==
    LET pairs == v2_pairs(v2_catalog)
        built == [n \in 1..Len(pairs) |->
                     v3_service(pairs[n][1], pairs[n][2],
                                v2_catalog[pairs[n][1]][pairs[n][2]])]
    IN  IF \E n \in 1..Len(pairs) : built[n].err # "ok"
        THEN [err |-> "AttributeError", v3_catalog |-> <<>>]
        ELSE [err |-> "ok",
              v3_catalog |-> [n \in 1..Len(pairs) |-> built[n].service_v3]]

\* The V2 services: every sequence of at most MaxAttrs items with distinct
\* attribute names.
V2Services ==
    UNION {{s \in [1..n -> AttrNames \X Values] :
               \A i, j \in 1..n : i # j => s[i][1] # s[j][1]}
           : n \in 0..MaxAttrs}

\* The V2 catalogs: at most MaxServices services in all.
V2Catalogs ==
    UNION {{[r \in {p[1] : p \in P} |->
                [ty \in {p[2] : p \in {q \in P : q[1] = r}} |-> f[<<r, ty>>]]]
            : f \in [P -> V2Services]}
           : P \in {Q \in SUBSET ((1..NumRegions) \X (1..NumTypes)) :
                       Cardinality(Q) <= MaxServices}}

CallGetV3Catalog ==
    /\ call = NoCall
    /\ \E v2_catalog \in V2Catalogs :
           call' = [fn |-> "get_v3_catalog", v2_catalog |-> v2_catalog]
    /\ UNCHANGED <<resourceVars, catalogVars, cacheVars, returned, in_flight>>

ReturnV3Catalog ==
    /\ call # NoCall /\ call.fn = "get_v3_catalog"
    /\ returned = NotReturned
    /\ returned' = build_v3_catalog(call.v2_catalog)
    /\ UNCHANGED <<resourceVars, catalogVars, cacheVars, call, in_flight>>

NextV3 == CallGetV3Catalog \/ ReturnV3Catalog

SpecV3 == InitConfig /\ [][NextV3]_vars

----------------------------------------------------------------------------
\* format_url.  A url template is the sequence of its pieces: a literal, a
\* reference to a key written $(key)s or %(key)s, or a % that starts no
\* complete format.  The formatted url is the sequence of its pieces.
MaxPieces == 2

WHITELISTED_PROPERTIES ==
    {"tenant_id", "project_id", "user_id", "public_bind_host",
     "admin_bind_host", "compute_host", "admin_port", "public_port",
     "public_endpoint", "admin_endpoint"}

\* The keys a template, the substitutions and silent_keyerror_failures name.
UrlKeys == {"tenant_id", "user_id", "password"}

UrlPieces ==
    [kind : {"literal"}, text : {"http"}]
    \cup [kind : {"reference"}, sigil : {"$(", "%("}, key : UrlKeys]
    \cup [kind : {"incomplete"}]

\* Mutant: every supplied key may be substituted.
UnfilteredItems(whitelist, data) == data

\* utils.WhiteListedItemFilter(whitelist, data): the items of data under a
\* whitelisted key; the lookup of any other key raises KeyError.
WhiteListedItemFilter(whitelist, data) ==
    [k \in DOMAIN data \cap whitelist |-> data[k]]

\* url.replace('$(', '%('): every reference is written with %(.
replace_sigil(url) ==
    [n \in 1..Len(url) |->
        IF url[n].kind = "reference" THEN [url[n] EXCEPT !.sigil = "%("]
        ELSE url[n]]

\* template % substitutions: the pieces are formatted from the left, and the
\* first one that cannot be ends the formatting.
RECURSIVE percent_format(_, _, _)
percent_format(template, substitutions, out) ==
    IF template = <<>> THEN [err |-> "ok", key |-> "", result |-> out]
    ELSE LET piece == Head(template)
         IN  IF piece.kind = "incomplete"
             THEN [err |-> "ValueError", key |-> "", result |-> <<>>]
             ELSE IF piece.kind = "literal"
             THEN percent_format(Tail(template), substitutions,
                                 Append(out, piece.text))
             ELSE IF piece.sigil # "%("
             THEN percent_format(Tail(template), substitutions,
                                 Append(out, piece.sigil))
             ELSE IF piece.key \notin DOMAIN substitutions
             THEN [err |-> "KeyError", key |-> piece.key, result |-> <<>>]
             ELSE percent_format(Tail(template), substitutions,
                                 Append(out, substitutions[piece.key]))

format_url(url, substitutions, silent_keyerror_failures) ==
    LET r == percent_format(
                 replace_sigil(url),
                 WhiteListedItemFilter(WHITELISTED_PROPERTIES, substitutions),
                 <<>>)
    IN  IF r.err = "KeyError"
        THEN IF r.key \notin silent_keyerror_failures
             THEN [err |-> "MalformedEndpoint", result |-> None]
             ELSE [err |-> "ok", result |-> None]
        ELSE IF r.err = "ValueError"
        THEN [err |-> "MalformedEndpoint", result |-> None]
        ELSE [err |-> "ok", result |-> r.result]

\* The urls of at most MaxPieces pieces, and the substitutions: each supplied
\* key has the value that is its own name in brackets.
Urls == UNION {[1..n -> UrlPieces] : n \in 0..MaxPieces}

ValueOf(key) == <<"value of", key>>

Substitutions == {[k \in K |-> ValueOf(k)] : K \in SUBSET UrlKeys}

CallFormatUrl ==
    /\ call = NoCall
    /\ \E url \in Urls, s \in Substitutions, silent \in SUBSET UrlKeys :
           call' = [fn |-> "format_url", url |-> url, substitutions |-> s,
                    silent_keyerror_failures |-> silent]
    /\ UNCHANGED <<resourceVars, catalogVars, cacheVars, returned, in_flight>>

ReturnFormatUrl ==
    /\ call # NoCall /\ call.fn = "format_url"
    /\ returned = NotReturned
    /\ returned' = format_url(call.url, call.substitutions,
                              call.silent_keyerror_failures)
    /\ UNCHANGED <<resourceVars, catalogVars, cacheVars, call, in_flight>>

NextFormatUrl == CallFormatUrl \/ ReturnFormatUrl

SpecFormatUrl == InitConfig /\ [][NextFormatUrl]_vars

----------------------------------------------------------------------------
\* Walks of the hierarchy over a table the manager did not write: the table
\* of a legacy driver may carry any parent_id links, a cycle included.

\* The rows of such a table at most.
MaxLegacyRows == 3
\* The nested calls the interpreter allows before it raises RecursionError;
\* more than any walk of an acyclic table needs.
MaxRecursion == MaxLegacyRows + 1

LegacyIds == 1..MaxLegacyRows

LegacyRow(parent_id) ==
    [name |-> 1, enabled |-> TRUE, domain_id |-> None,
     parent_id |-> parent_id, is_domain |-> parent_id = None]

LegacyTables ==
    {[i \in Ids |-> IF i \in D THEN LegacyRow(f[i]) ELSE NoProject]
     : D \in SUBSET LegacyIds, f \in [LegacyIds -> {None} \cup LegacyIds]}

\* The value None where a nested dict is expected; a nested dict is the set
\* of its <<key, value>> items and is never empty itself.
NoneDict == {}

\* traverse_parents_hierarchy of a project whose parent_id is given, as the
\* depth-th nested call.
RECURSIVE traverse_parents_hierarchy(_, _, _, _)
traverse_parents_hierarchy(s, parents_by_id, parent_id, depth) ==
    IF depth > MaxRecursion THEN [err |-> "RecursionError", ids |-> NoneDict]
    ELSE IF parent_id = None THEN [err |-> "ok", ids |-> NoneDict]
    ELSE IF parent_id \notin parents_by_id
         THEN [err |-> "KeyError", ids |-> NoneDict]
    ELSE LET above == traverse_parents_hierarchy(
                          s, parents_by_id, s[parent_id].parent_id, depth + 1)
         IN  IF above.err # "ok" THEN above
             ELSE [err |-> "ok", ids |-> {<<parent_id, above.ids>>}]

_build_parents_as_ids_dict(s, project_id, parents_by_id) ==
    traverse_parents_hierarchy(s, parents_by_id, s[project_id].parent_id, 1)

\* get_project_parents_as_ids, parents being what list_project_parents of the
\* driver ends with: a list of refs, the value None, or ProjectNotFound.
get_project_parents_as_ids_with(parents, s, project_id) ==
    LET v == _assert_valid_project_id(s, project_id)
    IN  IF v.err # "ok" THEN [err |-> v.err, ids |-> NoneDict]
        ELSE IF parents.err = "None" THEN [err |-> "TypeError", ids |-> NoneDict]
        ELSE IF parents.err # "ok" THEN [err |-> parents.err, ids |-> NoneDict]
        ELSE _build_parents_as_ids_dict(s, project_id, Range(parents.refs))

get_project_parents_as_ids(s, project_id) ==
    get_project_parents_as_ids_with(
        driver_list_project_parents(s, project_id), s, project_id)

\* _projects_indexed_by_parent: the listed projects under each parent_id.
_projects_indexed_by_parent(s, projects_list) ==
    [parent_id \in Ids |-> {c \in projects_list : s[c].parent_id = parent_id}]

RECURSIVE traverse_subtree_hierarchy(_, _, _)
traverse_subtree_hierarchy(subtree_by_parent, project_id, depth) ==
    IF depth > MaxRecursion THEN [err |-> "RecursionError", ids |-> NoneDict]
    ELSE
    LET children == subtree_by_parent[project_id]
        below == [c \in children |->
                     traverse_subtree_hierarchy(subtree_by_parent, c, depth + 1)]
    IN  IF children = {} THEN [err |-> "ok", ids |-> NoneDict]
        ELSE IF \E c \in children : below[c].err # "ok"
             THEN [err |-> "RecursionError", ids |-> NoneDict]
        ELSE [err |-> "ok", ids |-> {<<c, below[c].ids>> : c \in children}]

_build_subtree_as_ids_dict(project_id, subtree_by_parent) ==
    traverse_subtree_hierarchy(subtree_by_parent, project_id, 1)

\* get_projects_in_subtree_as_ids, subtree_list being the refs
\* list_projects_in_subtree of the driver returns.
get_projects_in_subtree_as_ids_with(subtree_list, s, project_id) ==
    LET v == _assert_valid_project_id(s, project_id)
    IN  IF v.err # "ok" THEN [err |-> v.err, ids |-> NoneDict]
        ELSE _build_subtree_as_ids_dict(
                 project_id, _projects_indexed_by_parent(s, subtree_list))

get_projects_in_subtree_as_ids(s, project_id) ==
    get_projects_in_subtree_as_ids_with(
        Range(driver_list_projects_in_subtree(s, project_id)), s, project_id)

InitLegacy ==
    /\ max_project_tree_depth = MaxDepth
    /\ multiple_domains_supported = TRUE
    /\ projects \in LegacyTables
    /\ whitelisted = {}
    /\ sensitive = {}
    /\ registration = None
    /\ catalog = EmptyCatalog
    /\ computed_catalog = EmptyRegion
    /\ project_cache = [i \in Ids |-> NoProject]
    /\ project_name_cache = [k \in NameKeys |-> NoProject]
    /\ domain_cache = [i \in Ids |-> NoProject]
    /\ domain_name_cache = [n \in Names |-> NoProject]
    /\ call = NoCall
    /\ returned = NotReturned
    /\ in_flight = NoneInFlight

\* What a driver may return for a listing: its own walk of the table, or
\* any list of stored refs.
DriverLists(walked) ==
    {walked} \cup {[err |-> "ok", refs |-> SetToSeq(L)]
                   : L \in SUBSET Stored(projects)}

CallListProjectParents ==
    /\ call = NoCall
    /\ \E project_id \in LegacyIds :
           call' = [fn |-> "list_project_parents", project_id |-> project_id]
    /\ UNCHANGED <<resourceVars, catalogVars, cacheVars, returned, in_flight>>

ReturnListProjectParents ==
    /\ call # NoCall /\ call.fn = "list_project_parents"
    /\ returned = NotReturned
    /\ returned' = driver_list_project_parents(projects, call.project_id)
    /\ UNCHANGED <<resourceVars, catalogVars, cacheVars, call, in_flight>>

CallGetProjectParentsAsIds ==
    /\ call = NoCall
    /\ \E project_id \in LegacyIds :
       \E listed \in DriverLists(driver_list_project_parents(projects,
                                                             project_id)) :
           call' = [fn |-> "get_project_parents_as_ids",
                    project_id |-> project_id, listed |-> listed]
    /\ UNCHANGED <<resourceVars, catalogVars, cacheVars, returned, in_flight>>

ReturnGetProjectParentsAsIds ==
    /\ call # NoCall /\ call.fn = "get_project_parents_as_ids"
    /\ returned = NotReturned
    /\ returned' = get_project_parents_as_ids_with(call.listed, projects,
                                                   call.project_id)
    /\ UNCHANGED <<resourceVars, catalogVars, cacheVars, call, in_flight>>

CallGetProjectsInSubtreeAsIds ==
    /\ call = NoCall
    /\ \E project_id \in LegacyIds :
       \E listed \in DriverLists(
              [err |-> "ok",
               refs |-> driver_list_projects_in_subtree(projects, project_id)]) :
           call' = [fn |-> "get_projects_in_subtree_as_ids",
                    project_id |-> project_id, listed |-> listed]
    /\ UNCHANGED <<resourceVars, catalogVars, cacheVars, returned, in_flight>>

ReturnGetProjectsInSubtreeAsIds ==
    /\ call # NoCall /\ call.fn = "get_projects_in_subtree_as_ids"
    /\ returned = NotReturned
    /\ returned' = get_projects_in_subtree_as_ids_with(
                       Range(call.listed.refs), projects, call.project_id)
    /\ UNCHANGED <<resourceVars, catalogVars, cacheVars, call, in_flight>>

NextLegacy ==
    \/ CallListProjectParents
    \/ ReturnListProjectParents
    \/ CallGetProjectParentsAsIds
    \/ ReturnGetProjectParentsAsIds
    \/ CallGetProjectsInSubtreeAsIds
    \/ ReturnGetProjectsInSubtreeAsIds

SpecLegacy == InitLegacy /\ [][NextLegacy]_vars

----------------------------------------------------------------------------
\* Catalog manager: get_catalog and update_endpoint in two threads.  Neither
\* handler takes a lock, so the threads take turns between any two of the
\* calls a handler makes: get_catalog looks the key up, calls the driver on
\* a miss and stores the value; update_endpoint writes through the driver
\* and then invalidates the computed-catalog region.

At(th, pc) == in_flight[th].pc = pc

Moves(th, locals) ==
    in_flight' = [in_flight EXCEPT ![th] = locals]

\* The catalog is set up by calls no other call overlaps.
Quiet == \A th \in Threads : At(th, "idle")

QuietCreateRegion == Quiet /\ CreateRegion
QuietCreateService == Quiet /\ CreateService
QuietCreateEndpoint == Quiet /\ CreateEndpoint

\* The memoized lookup: a hit returns the cached value.
GetCatalogLookup ==
    /\ At("get_catalog", "idle")
    /\ \E user_id \in Users, tenant_id \in CatalogProjects :
           LET key == <<"get_catalog", user_id, tenant_id>>
           IN  IF computed_catalog[key] # NoEntry
               THEN Moves("get_catalog",
                          [pc |-> "returned", key |-> key,
                           value |-> computed_catalog[key].value])
               ELSE Moves("get_catalog", [pc |-> "missed", key |-> key])
    /\ UNCHANGED <<resourceVars, catalogVars, cacheVars, call, returned>>

\* self.driver.get_catalog(user_id, tenant_id)
GetCatalogDriverRead ==
    /\ At("get_catalog", "missed")
    /\ LET key == in_flight["get_catalog"].key
       IN  Moves("get_catalog",
                 [pc |-> "read", key |-> key,
                  value |-> driver_get_catalog(catalog, key[2], key[3])])
    /\ UNCHANGED <<resourceVars, catalogVars, cacheVars, call, returned>>

\* The value is stored under the key and returned.
GetCatalogStore ==
    /\ At("get_catalog", "read")
    /\ LET l == in_flight["get_catalog"]
       IN  /\ computed_catalog' =
                  [computed_catalog EXCEPT ![l.key] = [value |-> l.value]]
           /\ Moves("get_catalog", [l EXCEPT !.pc = "returned"])
    /\ UNCHANGED <<resourceVars, catalog, cacheVars, call, returned>>

\* update_endpoint up to the driver write; a refused update returns.
UpdateEndpointWrite ==
    /\ At("update_endpoint", "idle")
    /\ \E id \in CatalogIds, ref \in EndpointUpdates :
           LET r == update_endpoint(CatHere, id, ref)
           IN  /\ catalog' = r.store
               /\ Moves("update_endpoint",
                        [pc |-> IF r.err = "ok" THEN "written" ELSE "returned",
                         err |-> r.err, before |-> catalog])
    /\ UNCHANGED <<resourceVars, computed_catalog, cacheVars, call, returned>>

\* COMPUTED_CATALOG_REGION.invalidate(), and the return.
UpdateEndpointInvalidate ==
    /\ At("update_endpoint", "written")
    /\ computed_catalog' = invalidate_computed_catalog(computed_catalog)
    /\ Moves("update_endpoint",
             [in_flight["update_endpoint"] EXCEPT !.pc = "returned"])
    /\ UNCHANGED <<resourceVars, catalog, cacheVars, call, returned>>

\* With no call under way the threads are free for their next calls.
CallsOver ==
    /\ \A th \in Threads : At(th, "idle") \/ At(th, "returned")
    /\ ~Quiet
    /\ in_flight' = NoneInFlight
    /\ UNCHANGED <<resourceVars, catalogVars, cacheVars, call, returned>>

NextCatalogThreads ==
    \/ QuietCreateRegion \/ QuietCreateService \/ QuietCreateEndpoint
    \/ GetCatalogLookup \/ GetCatalogDriverRead \/ GetCatalogStore
    \/ UpdateEndpointWrite \/ UpdateEndpointInvalidate
    \/ CallsOver

SpecCatalogThreads == InitConfig /\ [][NextCatalogThreads]_vars

----------------------------------------------------------------------------
\* batch_poll_helper (src/oslo_messaging/_drivers/base.py): a poll that
\* returns one message, or None on a timeout or a stopped listener, wrapped
\* into one that returns a list.

\* The largest batch asked for, and the messages in transit.
MaxPrefetch == 3
NumMessages == 2
Messages == 1..NumMessages

\* What the successive calls of the wrapped poll return.
Polls == [1..MaxPrefetch -> Messages \cup {None}]

\* Mutant: the driver's prefetch_size is not looked at.
FirstArgument(a, b) == a

min(a, b) == IF a <= b THEN a ELSE b

\* The for loop, with n iterations left after `calls` calls of func.
RECURSIVE poll_loop(_, _, _, _)
poll_loop(polls, n, calls, incomings) ==
    IF n <= 0 THEN [incomings |-> incomings, calls |-> calls]
    ELSE LET msg == polls[calls + 1]
         IN  IF msg # None
             THEN poll_loop(polls, n - 1, calls + 1, Append(incomings, msg))
             ELSE [incomings |-> incomings, calls |-> calls + 1]

\* wrapper(in_self, timeout, prefetch_size), driver_prefetch being
\* in_self.prefetch_size: the list returned and the calls of func made.
batch_poll_helper(polls, driver_prefetch, prefetch_size) ==
    poll_loop(polls,
              IF driver_prefetch > 0
              THEN min(prefetch_size, driver_prefetch) ELSE prefetch_size,
              0, <<>>)

\* The driver's prefetch_size is -1 or 0 when it sets no limit.
CallPoll ==
    /\ call = NoCall
    /\ \E polls \in Polls, driver_prefetch \in -1..MaxPrefetch,
          prefetch_size \in 0..MaxPrefetch :
           call' = [fn |-> "poll", polls |-> polls,
                    driver_prefetch |-> driver_prefetch,
                    prefetch_size |-> prefetch_size]
    /\ UNCHANGED <<resourceVars, catalogVars, cacheVars, returned, in_flight>>

ReturnPoll ==
    /\ call # NoCall /\ call.fn = "poll"
    /\ returned = NotReturned
    /\ returned' = batch_poll_helper(call.polls, call.driver_prefetch,
                                     call.prefetch_size)
    /\ UNCHANGED <<resourceVars, catalogVars, cacheVars, call, in_flight>>

NextPoll == CallPoll \/ ReturnPoll

SpecPoll == InitConfig /\ [][NextPoll]_vars

----------------------------------------------------------------------------
\* Catalog driver: the hierarchy of regions.  A driver runs
\* _ensure_no_circle_in_hierarchical_regions on the region it is about to
\* store.

RegionRow(parent_region_id) == [parent_region_id |-> parent_region_id]

\* Mutant: no hierarchy is refused.
EnsureNothing(t, region_id, parent_region_id) == "ok"

\* The while loop, with `steps` iterations left before it has been through
\* more regions than the table holds and so never ends.
RECURSIVE region_walk(_, _, _, _)
region_walk(t, root_region_id, parent_region_id, steps) ==
    IF parent_region_id = None THEN "ok"
    ELSE IF parent_region_id = root_region_id
         THEN "CircularRegionHierarchyError"
    ELSE IF t[parent_region_id] = NoRegion THEN "RegionNotFound"
    ELSE IF steps = 0 THEN "never returns"
    ELSE region_walk(t, root_region_id,
                     t[parent_region_id].parent_region_id, steps - 1)

\* region_ref carries the id and the parent_region_id to be stored.
_ensure_no_circle_in_hierarchical_regions(t, region_id, parent_region_id) ==
    region_walk(t, region_id, parent_region_id, MaxRegions)

RegionResult(e, t) == [err |-> e, hierarchy |-> t]

driver_create_region(t, region_id, parent_region_id) ==
    IF t[region_id] # NoRegion THEN RegionResult("Conflict", t)
    ELSE LET e == _ensure_no_circle_in_hierarchical_regions(
                      t, region_id, parent_region_id)
         IN  IF e # "ok" THEN RegionResult(e, t)
             ELSE RegionResult(
                      "ok", [t EXCEPT ![region_id] = RegionRow(parent_region_id)])

\* The stored region updated with region_ref is what is checked and stored.
driver_update_region(t, region_id, parent_region_id) ==
    IF t[region_id] = NoRegion THEN RegionResult("RegionNotFound", t)
    ELSE LET e == _ensure_no_circle_in_hierarchical_regions(
                      t, region_id, parent_region_id)
         IN  IF e # "ok" THEN RegionResult(e, t)
             ELSE RegionResult(
                      "ok", [t EXCEPT ![region_id] = RegionRow(parent_region_id)])

\* The regions below a region.
RECURSIVE child_regions(_, _, _)
child_regions(t, region_ids, n) ==
    IF n = 0 THEN region_ids
    ELSE child_regions(
             t,
             region_ids \cup {i \in RegionIds :
                                 /\ t[i] # NoRegion
                                 /\ t[i].parent_region_id \in region_ids},
             n - 1)

\* A driver deletes the region alone or with the regions below it.
driver_delete_region(t, region_id, with_children) ==
    IF t[region_id] = NoRegion THEN RegionResult("RegionNotFound", t)
    ELSE LET gone == IF with_children
                     THEN child_regions(t, {region_id}, MaxRegions)
                     ELSE {region_id}
         IN  RegionResult("ok", [i \in RegionIds |->
                                    IF i \in gone THEN NoRegion ELSE t[i]])

ParentArgs == {None} \cup RegionIds

StoreRegions(r) ==
    /\ r.err = "ok"
    /\ catalog' = [catalog EXCEPT !.region_hierarchy = r.hierarchy]
    /\ UNCHANGED <<computed_catalog, resourceVars, cacheVars, callVars>>

DriverCreateRegion ==
    \E region_id \in RegionIds, parent_region_id \in ParentArgs :
        StoreRegions(driver_create_region(catalog.region_hierarchy,
                                          region_id, parent_region_id))

DriverUpdateRegion ==
    \E region_id \in RegionIds, parent_region_id \in ParentArgs :
        StoreRegions(driver_update_region(catalog.region_hierarchy,
                                          region_id, parent_region_id))

DriverDeleteRegion ==
    \E region_id \in RegionIds, with_children \in BOOLEAN :
        StoreRegions(driver_delete_region(catalog.region_hierarchy,
                                          region_id, with_children))

NextRegions ==
    DriverCreateRegion \/ DriverUpdateRegion \/ DriverDeleteRegion

SpecRegions == InitConfig /\ [][NextRegions]_vars

----------------------------------------------------------------------------
\* What the claims are stated with.  These read the table directly and not
\* through the driver's walks.

\* The stored projects met from id upwards along parent_id, id first, n at
\* most; the walk ends at an empty or unstored parent_id.
RECURSIVE Chain(_, _, _)
Chain(s, id, n) ==
    IF n = 0 \/ ~Exists(s, id) THEN <<>>
    ELSE <<id>> \o Chain(s, s[id].parent_id, n - 1)

AncestorsOf(s, id) == Range(Chain(s, s[id].parent_id, NumIds))

Descendants(s, id) == {j \in Stored(s) \ {id} : id \in AncestorsOf(s, j)}

Regular(s) == {i \in Stored(s) : ~s[i].is_domain}

OnlyEnabled(b) ==
    [has |-> {"enabled"}, name |-> 1, enabled |-> b, domain_id |-> None,
     parent_id |-> None, is_domain |-> FALSE]

SameWorld(r) ==
    /\ r.projects = projects
    /\ r.whitelisted = whitelisted
    /\ r.sensitive = sensitive
    /\ r.registration = registration

----------------------------------------------------------------------------
\* Resource manager: create_project in one thread, and update_project or
\* delete_project of the parent in another.  A handler makes its checks on
\* the rows it reads and then calls the driver to write; the other thread
\* may run between the two.

QuietCreateProject == Quiet /\ CreateProject

\* The payloads of a project under a stored regular parent.
ChildRefs(s) ==
    {p \in ProjectRefs(s) : ~p.is_domain /\ p.parent_id \in Regular(s)}

\* create_project up to the driver call: _enforce_project_constraints.
CreateProjectChecks ==
    /\ At("create_project", "idle")
    /\ \E project_id \in Fresh(projects), project \in ChildRefs(projects) :
           LET c == _enforce_project_constraints(projects, project_id, project)
           IN  Moves("create_project",
                     [pc |-> IF c.err = "ok" THEN "checked" ELSE "returned",
                      err |-> c.err, id |-> project_id, project |-> project])
    /\ UNCHANGED <<resourceVars, catalogVars, cacheVars, call, returned>>

\* driver.create_project: Conflict is raised on the rows held now.  A driver
\* that keeps a foreign key on parent_id refuses a row whose parent is gone;
\* one that keeps none writes it.
CreateProjectWrite ==
    /\ At("create_project", "checked")
    /\ LET l == in_flight["create_project"]
       IN  IF driver_create_conflict(projects, l.id, l.project)
           THEN /\ Moves("create_project",
                         [l EXCEPT !.pc = "returned", !.err = "Conflict"])
                /\ UNCHANGED projects
           ELSE \/ /\ projects' = [projects EXCEPT ![l.id] = l.project]
                   /\ Moves("create_project", [l EXCEPT !.pc = "returned"])
                \/ /\ ~Exists(projects, l.project.parent_id)
                   /\ Moves("create_project",
                            [l EXCEPT !.pc = "returned",
                                      !.err = "driver error"])
                   /\ UNCHANGED projects
    /\ UNCHANGED <<max_project_tree_depth, multiple_domains_supported,
                   whitelisted, sensitive, registration, catalogVars,
                   cacheVars, call, returned>>

\* update_project(P, {enabled: false}) up to the driver call.
DisableParentChecks ==
    /\ At("parent_call", "idle")
    /\ \E project_id \in Regular(projects) :
           LET r == update_project(projects, project_id, OnlyEnabled(FALSE),
                                   FALSE)
           IN  Moves("parent_call",
                     [pc |-> IF r.err = "ok" THEN "checked" ELSE "returned",
                      err |-> r.err, fn |-> "update_project",
                      id |-> project_id])
    /\ UNCHANGED <<resourceVars, catalogVars, cacheVars, call, returned>>

\* driver.update_project of the parent.
DisableParentWrite ==
    /\ At("parent_call", "checked")
    /\ in_flight["parent_call"].fn = "update_project"
    /\ LET l == in_flight["parent_call"]
       IN  /\ projects' = [projects EXCEPT ![l.id] =
                              Merged(projects[l.id], OnlyEnabled(FALSE))]
           /\ Moves("parent_call", [l EXCEPT !.pc = "returned"])
    /\ UNCHANGED <<max_project_tree_depth, multiple_domains_supported,
                   whitelisted, sensitive, registration, catalogVars,
                   cacheVars, call, returned>>

\* delete_project(P) up to the driver call.
DeleteParentChecks ==
    /\ At("parent_call", "idle")
    /\ \E project_id \in Regular(projects) :
           LET r == delete_project(Here, project_id, FALSE)
           IN  Moves("parent_call",
                     [pc |-> IF r.err = "ok" THEN "checked" ELSE "returned",
                      err |-> r.err, fn |-> "delete_project",
                      id |-> project_id])
    /\ UNCHANGED <<resourceVars, catalogVars, cacheVars, call, returned>>

\* driver.delete_project of the parent.
DeleteParentWrite ==
    /\ At("parent_call", "checked")
    /\ in_flight["parent_call"].fn = "delete_project"
    /\ LET l == in_flight["parent_call"]
       IN  /\ projects' = [projects EXCEPT ![l.id] = NoProject]
           /\ Moves("parent_call", [l EXCEPT !.pc = "returned"])
    /\ UNCHANGED <<max_project_tree_depth, multiple_domains_supported,
                   whitelisted, sensitive, registration, catalogVars,
                   cacheVars, call, returned>>

NextProjectThreads ==
    \/ QuietCreateProject
    \/ CreateProjectChecks \/ CreateProjectWrite
    \/ DisableParentChecks \/ DisableParentWrite
    \/ DeleteParentChecks \/ DeleteParentWrite
    \/ CallsOver

SpecProjectThreads == InitConfig /\ [][NextProjectThreads]_vars

----------------------------------------------------------------------------
\* C1: every stored project has at most max_project_tree_depth ancestors,
\* the domain-acting root included.
C1_DepthWithinLimit ==
    \A i \in Stored(projects) :
        Len(Chain(projects, i, NumIds + 1)) - 1 <= max_project_tree_depth

\* Under a limit above one, a project is stored with exactly
\* max_project_tree_depth ancestors.
C1_Witness ==
    /\ max_project_tree_depth > 1
    /\ \E i \in Stored(projects) :
           Len(Chain(projects, i, NumIds + 1)) - 1 = max_project_tree_depth

\* The parent a create_project payload ends up with.
ParentOf(p) == IF p.parent_id = None THEN p.domain_id ELSE p.parent_id

\* A regular project under a stored parent whose ancestors, the parent
\* included, number more than max_project_tree_depth.
TooDeep(p) ==
    /\ ~p.is_domain
    /\ Exists(projects, ParentOf(p))
    /\ Len(Chain(projects, ParentOf(p), NumIds + 1)) + 1
           > max_project_tree_depth + 1

\* The payload names a stored domain that is the domain of its parent.
DomainFits(p) ==
    _assert_regular_project_constraints(projects,
        [p EXCEPT !.parent_id = ParentOf(p)]).err = "ok"

BranchEnabled(p) ==
    \A a \in Range(Chain(projects, ParentOf(p), NumIds + 1)) :
        projects[a].enabled

\* C2 as claimed: create_project of a regular project that would exceed the
\* depth limit fails with ForbiddenNotSecurity and writes nothing.
C2_AlwaysForbidden ==
    \A id \in Fresh(projects), p \in ProjectRefs(projects) :
        TooDeep(p) /\ DomainFits(p) =>
            LET r == create_project(projects, id, p)
            IN  r.err = "ForbiddenNotSecurity" /\ r.projects = projects

\* C2 amended: such a create_project fails and never reaches the driver;
\* the error is ForbiddenNotSecurity when the domain fits and every ancestor
\* is enabled, ValidationError when the domain fits and an ancestor is
\* disabled, and the domain check's error otherwise.
C2_FailsWithoutWrite ==
    \A id \in Fresh(projects), p \in ProjectRefs(projects) :
        TooDeep(p) =>
            LET r == create_project(projects, id, p)
            IN  /\ r.err # "ok"
                /\ r.projects = projects
                /\ r.log = <<>>
                /\ DomainFits(p) /\ BranchEnabled(p) =>
                       r.err = "ForbiddenNotSecurity" /\ r.msg = "max depth"
                /\ DomainFits(p) /\ ~BranchEnabled(p) =>
                       r.err = "ValidationError" /\ r.msg = "disabled branch"
                /\ ~DomainFits(p) =>
                       r.err \in {"DomainNotFound", "ValidationError"}

\* A create_project beyond the depth limit, in an enabled branch of the
\* right domain, is refused with the depth error.
C2_Witness ==
    \E id \in Fresh(projects), p \in ProjectRefs(projects) :
        /\ TooDeep(p) /\ DomainFits(p) /\ BranchEnabled(p)
        /\ create_project(projects, id, p).err = "ForbiddenNotSecurity"

\* C3: following parent_id from any stored project reaches a root (empty
\* parent_id) through stored projects, without meeting an id twice.
C3_ParentGraphIsForest ==
    \A i \in Stored(projects) :
        LET c == Chain(projects, i, NumIds + 1)
        IN  /\ \A j, k \in 1..Len(c) : c[j] = c[k] => j = k
            /\ projects[c[Len(c)]].parent_id = None

\* A project is stored below a regular project below a domain.
C3_Witness ==
    \E i \in Stored(projects) : Len(Chain(projects, i, NumIds + 1)) = 3

\* C4 as claimed: every stored enabled regular project has every regular
\* ancestor stored enabled.
C4_EnabledOnlyUnderEnabled ==
    \A i \in Regular(projects) :
        projects[i].enabled =>
            \A a \in AncestorsOf(projects, i) \cap Regular(projects) :
                projects[a].enabled

\* C5: update_project(id, {enabled: false}) without cascade, on an enabled
\* regular project with an enabled project in its subtree, fails with
\* ForbiddenNotSecurity and changes no stored project.
C5_DisableRefused ==
    \A id \in Regular(projects) :
        (/\ projects[id].enabled
         /\ \E j \in Descendants(projects, id) : projects[j].enabled) =>
            LET r == update_project(projects, id, OnlyEnabled(FALSE), FALSE)
            IN  r.err = "ForbiddenNotSecurity" /\ r.projects = projects

\* An enabled regular project with an enabled descendant, where the call
\* is refused.
C5_Witness ==
    \E id \in Regular(projects) :
        /\ projects[id].enabled
        /\ \E j \in Descendants(projects, id) : projects[j].enabled
        /\ update_project(projects, id, OnlyEnabled(FALSE), FALSE).err
               = "ForbiddenNotSecurity"

\* C6: when update_project(id, {enabled: false}, cascade=true) succeeds,
\* id and every project of its subtree are stored disabled.
C6_CascadeDisablesSubtree ==
    \A id \in Stored(projects) :
        LET r == update_project(projects, id, OnlyEnabled(FALSE), TRUE)
        IN  r.err = "ok" =>
                /\ ~r.projects[id].enabled
                /\ \A j \in Descendants(projects, id) :
                       /\ Exists(r.projects, j)
                       /\ ~r.projects[j].enabled

\* A cascade disable succeeds on a project whose subtree holds an enabled
\* and a disabled member.
C6_Witness ==
    \E id \in Stored(projects) :
        /\ \E j \in Descendants(projects, id) : projects[j].enabled
        /\ \E j \in Descendants(projects, id) : ~projects[j].enabled
        /\ update_project(projects, id, OnlyEnabled(FALSE), TRUE).err = "ok"

\* The payloads that enable: enabled = true, and at most one more attribute
\* that leaves parent_id, is_domain and domain_id as stored.
EnablePayloads(id) ==
    {f \in PayloadsUpTo(projects, Attrs, 2) :
        /\ "enabled" \in f.has /\ f.enabled
        /\ \A a \in f.has \cap {"parent_id", "is_domain", "domain_id"} :
               Get(f, a) = Get(projects[id], a)}

\* C7: update_project that enables a disabled project with a disabled
\* ancestor (the domain-acting root included) fails with
\* ForbiddenNotSecurity, with and without cascade, and changes no stored
\* project; the payload sets enabled = true, alone or with one more
\* attribute that passes the checks made before the one on enabled.
C7_EnableRefused ==
    \A id \in Stored(projects), cascade \in BOOLEAN :
        (/\ ~projects[id].enabled
         /\ \E a \in AncestorsOf(projects, id) : ~projects[a].enabled) =>
            \A f \in EnablePayloads(id) :
                LET r == update_project(projects, id, f, cascade)
                IN  /\ r.err = "ForbiddenNotSecurity"
                    /\ r.msg = "disabled parents"
                    /\ r.projects = projects

\* A disabled project below a disabled regular project, where enabling is
\* refused under cascade.
C7_Witness ==
    \E id \in Stored(projects) :
        /\ ~projects[id].enabled
        /\ \E a \in AncestorsOf(projects, id) \cap Regular(projects) :
               ~projects[a].enabled
        /\ update_project(projects, id, OnlyEnabled(TRUE), TRUE).err
               = "ForbiddenNotSecurity"

\* The projects a domain contains: those with its id as domain_id and those
\* whose parent chain leads to it.
Contained(s, d) ==
    {j \in Stored(s) : s[j].domain_id = d} \cup Descendants(s, d)

\* C8: delete_domain of a project stored enabled, and delete_project of a
\* domain-acting project stored enabled, fail and leave every project,
\* every config option and the registration as they were.
C8_EnabledDomainKept ==
    \A d \in Stored(projects) :
        projects[d].enabled =>
            /\ LET r == delete_domain(Here, d)
               IN  r.err = "ForbiddenNotSecurity" /\ SameWorld(r)
            /\ projects[d].is_domain =>
                   \A cascade \in BOOLEAN :
                       LET r == delete_project(Here, d, cascade)
                       IN  r.err = "ForbiddenNotSecurity" /\ SameWorld(r)

\* An enabled domain that contains a project, has config options of both
\* kinds stored and holds the registration, where the delete is refused.
C8_Witness ==
    \E d \in DomainIds(projects) :
        /\ projects[d].enabled
        /\ Contained(projects, d) # {}
        /\ \E o \in whitelisted : o[1] = d
        /\ \E o \in sensitive : o[1] = d
        /\ registration = d
        /\ delete_domain(Here, d).err = "ForbiddenNotSecurity"

\* The deletes the driver receives in a log, in order.
DriverDeletes(l) == SelectSeq(l, LAMBDA e : e.ev = "driver.delete_project")

\* C9: in delete_domain of a disabled domain, the driver receives no delete
\* for a project that another stored project names as its parent: a project
\* is deleted after its children, and the domain-acting project last.
C9_ChildrenDeletedFirst ==
    \A d \in Stored(projects) :
        ~projects[d].enabled =>
            LET r == delete_domain(Here, d)
                dl == DriverDeletes(r.log)
            IN  /\ \A k \in 1..Len(dl) : dl[k].children = {}
                /\ \A k \in 1..Len(r.log) :
                       r.log[k].ev # "driver.delete_projects_from_ids"
                /\ \A j, k \in 1..Len(dl) :
                       projects[dl[j].id].parent_id = dl[k].id => j < k
                /\ r.err = "ok" => dl[Len(dl)].id = d
                /\ \A i \in Stored(projects) \ Stored(r.projects) :
                       \E k \in 1..Len(dl) : dl[k].id = i

\* delete_domain succeeds on a disabled domain that holds a project with a
\* child: three deletes reach the driver.
C9_Witness ==
    \E d \in DomainIds(projects) :
        /\ ~projects[d].enabled
        /\ \E j \in Children(projects, d) : Children(projects, j) # {}
        /\ delete_domain(Here, d).err = "ok"
        /\ Len(DriverDeletes(delete_domain(Here, d).log)) = 3

\* C10 as claimed: release_registration is called only once every contained
\* project and the domain-acting project are deleted from storage, and not
\* at all when a delete fails.
C10_ReleasedAfterContents ==
    \A d \in DomainIds(projects) :
        LET r == delete_domain(Here, d)
        IN  /\ \A k \in 1..Len(r.log) :
                   r.log[k].ev = "release_registration" =>
                       r.log[k].stored
                           \cap ({d} \cup Contained(projects, d)) = {}
            /\ r.err # "ok" => r.registration = registration

\* C11 as claimed: when delete_domain(D) succeeds, no project that had D as
\* its domain_id, and no project whose parent chain led to D, is left in
\* storage.
C11_DomainContentsGone ==
    \A d \in DomainIds(projects) :
        LET r == delete_domain(Here, d)
        IN  r.err = "ok" =>
                Contained(projects, d) \cap Stored(r.projects) = {}

\* The nearest project acting as a domain on the parent chain of i, or None.
NearestDomain(s, i) ==
    LET c == Chain(s, s[i].parent_id, NumIds + 1)
        doms == {k \in 1..Len(c) : s[c[k]].is_domain}
    IN  IF doms = {} THEN None
        ELSE c[CHOOSE k \in doms : \A m \in doms : k <= m]

\* C15 as claimed: the domain_id of every stored regular project is the id
\* of the nearest project acting as a domain on its parent chain.
C15_DomainIdIsNearestDomain ==
    \A i \in Regular(projects) :
        projects[i].domain_id = NearestDomain(projects, i)

\* The payloads of a project acting as a domain, under every domain_id and
\* parent_id.
DomainProjectRefs ==
    [name : Names, enabled : BOOLEAN, domain_id : IdArgs(projects),
     parent_id : IdArgs(projects), is_domain : {TRUE}]

\* C16: every stored project acting as a domain has no parent_id and no
\* domain_id, every stored regular project has a parent_id, and
\* create_project of a project acting as a domain with a parent_id or a
\* domain_id fails and writes nothing.
C16_DomainsAreRoots ==
    /\ \A i \in Stored(projects) :
           IF projects[i].is_domain
           THEN projects[i].parent_id = None /\ projects[i].domain_id = None
           ELSE projects[i].parent_id # None
    /\ \A id \in TargetIds(projects), p \in DomainProjectRefs :
           p.parent_id # None \/ p.domain_id # None =>
               LET r == create_project(projects, id, p)
               IN  r.err # "ok" /\ r.projects = projects /\ r.log = <<>>

\* A domain and a regular project are stored, and a create_project of a
\* project acting as a domain below the stored domain is refused.
C16_Witness ==
    \E d \in DomainIds(projects), id \in Fresh(projects) :
        /\ Regular(projects) # {}
        /\ create_project(projects, id,
               [name |-> 1, enabled |-> TRUE, domain_id |-> None,
                parent_id |-> d, is_domain |-> TRUE]).err = "ValidationError"

\* C17 as claimed: update_project with a parent_id or an is_domain other
\* than the stored one fails with ValidationError and changes no stored
\* project.
C17_ImmutableFieldsValidationError ==
    \A id \in Stored(projects), cascade \in BOOLEAN :
        \A f \in PayloadsUpTo(projects, {"parent_id", "is_domain"}, 2) :
            (\E a \in f.has : Get(f, a) # Get(projects[id], a)) =>
                LET r == update_project(projects, id, f, cascade)
                IN  r.err = "ValidationError" /\ r.projects = projects

\* The payloads that change the domain_id of id: a domain_id other than the
\* stored one, alone or with one more attribute, parent_id and is_domain as
\* stored when carried.
DomainChangePayloads(id) ==
    {f \in PayloadsUpTo(projects, Attrs, 2) :
        /\ "domain_id" \in f.has /\ f.domain_id # projects[id].domain_id
        /\ \A a \in f.has \cap {"parent_id", "is_domain"} :
               Get(f, a) = Get(projects[id], a)}

\* id is a regular project right below a project acting as a domain, with
\* nothing below it.
ChildlessRoot(id) ==
    /\ ~projects[id].is_domain
    /\ Exists(projects, projects[id].parent_id)
    /\ projects[projects[id].parent_id].is_domain
    /\ Descendants(projects, id) = {}

\* C18: update_project that changes domain_id succeeds only on a childless
\* root project; on a project acting as a domain, a project below a regular
\* project or a project with a descendant it fails with ValidationError and
\* changes no stored project.
C18_DomainIdOnlyForChildlessRoot ==
    \A id \in Stored(projects), cascade \in BOOLEAN :
        \A f \in DomainChangePayloads(id) :
            LET r == update_project(projects, id, f, cascade)
            IN  /\ r.err = "ok" => ChildlessRoot(id)
                /\ ~ChildlessRoot(id) =>
                       r.err = "ValidationError" /\ r.projects = projects

\* One stored table where the change is refused on the domain, on a root
\* project with a child and on that child.
C18_Witness ==
    \E d \in DomainIds(projects), p, c \in Regular(projects) :
        /\ projects[p].parent_id = d /\ projects[c].parent_id = p
        /\ \A id \in {d, p, c} :
               \E f \in DomainChangePayloads(id) :
                   /\ f.has = {"domain_id"}
                   /\ update_project(projects, id, f, FALSE).err
                          = "ValidationError"

\* C19: delete_project without cascade on a regular project with a stored
\* child fails with ForbiddenNotSecurity, deletes nothing and runs no
\* pre-delete or post-delete side effect.
C19_NonLeafDeleteRefused ==
    \A id \in Regular(projects) :
        Children(projects, id) # {} =>
            LET r == delete_project(Here, id, FALSE)
            IN  /\ r.err = "ForbiddenNotSecurity"
                /\ r.projects = projects
                /\ r.log = <<>>

\* A disabled regular project with a disabled child, where the delete is
\* refused.
C19_Witness ==
    \E id \in Regular(projects) :
        /\ ~projects[id].enabled
        /\ \E c \in Children(projects, id) : ~projects[c].enabled
        /\ delete_project(Here, id, FALSE).err = "ForbiddenNotSecurity"

\* C20: delete_project with cascade on a regular project fails with
\* ForbiddenNotSecurity and deletes nothing when a project below it is
\* stored enabled; when it succeeds, the project and every project below it
\* are gone from storage.
C20_CascadeDelete ==
    \A id \in Regular(projects) :
        LET r == delete_project(Here, id, TRUE)
        IN  /\ (\E j \in Descendants(projects, id) : projects[j].enabled) =>
                   /\ r.err = "ForbiddenNotSecurity"
                   /\ r.projects = projects
                   /\ r.log = <<>>
            /\ r.err = "ok" =>
                   ({id} \cup Descendants(projects, id))
                       \cap Stored(r.projects) = {}

\* A regular project above an enabled one, where the cascade delete is
\* refused.
C20_Witness ==
    \E id \in Regular(projects) :
        /\ \E j \in Descendants(projects, id) : projects[j].enabled
        /\ delete_project(Here, id, TRUE).err = "ForbiddenNotSecurity"


\* After the call that ended as r, every get_catalog and get_v3_catalog, for
\* every (user, project) pair, calls the driver and returns what the driver
\* now holds.
Recomputes(r) ==
    \A u \in Users, p \in CatalogProjects :
        LET c == Cat(r.store, r.cache)
        IN  /\ get_catalog(c, u, p).driver_called
            /\ get_catalog(c, u, p).value = driver_get_catalog(r.store, u, p)
            /\ get_v3_catalog(c, u, p).driver_called
            /\ get_v3_catalog(c, u, p).value = driver_get_v3_catalog(r.store, u, p)

\* The outcomes of every create, update and delete of a region, service or
\* endpoint, and of every add and remove of an endpoint or endpoint group to
\* or from a project, in the current state.
CatalogMutations ==
    {create_region(CatHere, i, v) : i \in CatalogIds, v \in Values}
    \cup {update_region(CatHere, i, v) : i \in CatalogIds, v \in Values}
    \cup {delete_region(CatHere, i) : i \in CatalogIds}
    \cup {create_service(CatHere, i, v) : i \in CatalogIds, v \in Values}
    \cup {update_service(CatHere, i, v) : i \in CatalogIds, v \in Values}
    \cup {delete_service(CatHere, i) : i \in CatalogIds}
    \cup {create_endpoint(CatHere, i, e) : i \in CatalogIds, e \in EndpointRefs}
    \cup {update_endpoint(CatHere, i, e) : i \in CatalogIds, e \in EndpointUpdates}
    \cup {delete_endpoint(CatHere, i) : i \in CatalogIds}
    \cup {add_endpoint_to_project(CatHere, i, p) :
             i \in CatalogIds, p \in CatalogProjects}
    \cup {remove_endpoint_from_project(CatHere, i, p) :
             i \in CatalogIds, p \in CatalogProjects}
    \cup {add_endpoint_group_to_project(CatHere, i, p) :
             i \in CatalogIds, p \in CatalogProjects}
    \cup {remove_endpoint_group_from_project(CatHere, i, p) :
             i \in CatalogIds, p \in CatalogProjects}

\* The outcomes of every create, update and delete of an endpoint group
\* called on the manager, in the current state.
EndpointGroupMutations ==
    {create_endpoint_group(CatHere, i, f) : i \in CatalogIds, f \in Filters}
    \cup {update_endpoint_group(CatHere, i, f) : i \in CatalogIds, f \in Filters}
    \cup {delete_endpoint_group(CatHere, i) : i \in CatalogIds}

C13_EndpointGroupInvalidatesRegion ==
    \A r \in EndpointGroupMutations : r.err = "ok" => Recomputes(r)


\* C14: with caching on, after every sequence of create_project,
\* update_project (with and without cascade) and delete_project calls, the
\* memoized get_project(id) and get_project_by_name(name, domain_id) return
\* for every project what the driver holds, and fail with ProjectNotFound
\* when the driver holds none: no value cached before the last write to the
\* project is returned.
C14_MemoizedReadsAreCurrent ==
    /\ \A project_id \in Ids :
           LET r == get_project(projects, KHere, project_id)
           IN  IF Exists(projects, project_id)
               THEN r.err = "ok" /\ r.ref = projects[project_id]
               ELSE r.err = "ProjectNotFound"
    /\ \A key \in NameKeys :
           LET r == get_project_by_name(projects, KHere, key[1], key[2])
               v == driver_get_project_by_name(projects, key[1], key[2])
           IN  IF v # NoProject
               THEN r.err = "ok" /\ r.ref = v
               ELSE r.err = "ProjectNotFound"

\* The payload that carries enabled = FALSE and nothing else.
DisablePayload ==
    [has |-> {"enabled"}, name |-> 1, enabled |-> FALSE, domain_id |-> None,
     parent_id |-> None, is_domain |-> FALSE]

\* The call that ended as r wrote the row of d with enabled FALSE and left
\* every other row as it was.
OnlyDisabled(r, d) ==
    /\ r.err = "ok"
    /\ r.projects[d] = [projects[d] EXCEPT !.enabled = FALSE]
    /\ \A j \in Ids \ {d} : r.projects[j] = projects[j]

\* C21: update_project without cascade, and update_domain, that set enabled
\* to false on an enabled project acting as a domain succeed whatever the
\* enabled flags of its descendants are, and leave every stored field of
\* every descendant as it was.
C21_DomainDisableLeavesSubtree ==
    \A d \in DomainIds(projects) :
        projects[d].enabled =>
            /\ OnlyDisabled(update_project(projects, d, DisablePayload, FALSE), d)
            /\ OnlyDisabled(update_domain(projects, d, DisablePayload), d)

\* C21 happens: an enabled domain with an enabled project two levels below
\* it.
C21_Witness ==
    \E d \in DomainIds(projects), i, j \in Regular(projects) :
        /\ projects[d].enabled /\ projects[i].enabled /\ projects[j].enabled
        /\ projects[i].parent_id = d /\ projects[j].parent_id = i
        /\ update_domain(projects, d, DisablePayload).err = "ok"

\* C22: update_project with cascade whose payload carries an attribute other
\* than enabled with a value that differs from the stored one fails with
\* ValidationError, and no stored project is changed.
C22_CascadeOnlyEnabled ==
    \A id \in Stored(projects), f \in Payloads(projects, Attrs) :
        (\E a \in f.has \ {"enabled"} : Get(f, a) # Get(projects[id], a)) =>
            LET r == update_project(projects, id, f, TRUE)
            IN  r.err = "ValidationError" /\ r.projects = projects

\* The items of a V2 service, and the pairs of a V2 catalog.
Items(service) == {service[n] : n \in 1..Len(service)}

PairsOf(v2_catalog) ==
    {<<r, ty>> : r \in DOMAIN v2_catalog, ty \in 1..NumTypes} \cap
    UNION {{<<r, ty>> : ty \in DOMAIN v2_catalog[r]} : r \in DOMAIN v2_catalog}

\* entry is the reshape of the V2 service of the pair: its type is the
\* service type, it has one endpoint for each attribute that ends in URL,
\* every other attribute is on it with its value, and it holds nothing else.
Reshaped(entry, region_name, service_type, service) ==
    LET urls == {i \in Items(service) : endswith_URL(i[1])}
        others == Items(service) \ urls
    IN  /\ DOMAIN entry = {AttrType, AttrEndpoints} \cup {i[1] : i \in others}
        /\ entry[AttrType] = Str(service_type)
        /\ entry[AttrEndpoints].is_list
        /\ Len(entry[AttrEndpoints].list) = Cardinality(urls)
        /\ Range(entry[AttrEndpoints].list) =
               {[interface |-> v3_interface(i[1]), region |-> region_name,
                 url |-> i[2]] : i \in urls}
        /\ \A i \in others : entry[i[1]] = Str(i[2])

\* C23: for every V2 catalog, the default get_v3_catalog returns one service
\* entry for each (region, service type) pair, and that entry is the reshape
\* of the pair's V2 service: nothing is added and nothing is dropped.
C23_V3IsLosslessReshape ==
    (call # NoCall /\ call.fn = "get_v3_catalog" /\ returned # NotReturned) =>
        LET pairs == PairsOf(call.v2_catalog)
        IN  /\ returned.err = "ok"
            /\ Len(returned.v3_catalog) = Cardinality(pairs)
            /\ \E at \in [pairs -> 1..Len(returned.v3_catalog)] :
                   /\ \A p, q \in pairs : p # q => at[p] # at[q]
                   /\ \A p \in pairs :
                          Reshaped(returned.v3_catalog[at[p]], p[1], p[2],
                                   call.v2_catalog[p[1]][p[2]])

\* A format_url call has returned.
FormatUrlReturned ==
    call # NoCall /\ call.fn = "format_url" /\ returned # NotReturned

\* The keys the url references, and those of them that cannot be
\* substituted: not on the whitelist, or not supplied.
Referenced(url) == {url[n].key : n \in {m \in 1..Len(url) : url[m].kind = "reference"}}

Unresolved(key) ==
    key \notin WHITELISTED_PROPERTIES \/ key \notin DOMAIN call.substitutions

\* The url with every reference replaced by the supplied value.
Substituted(url) ==
    [n \in 1..Len(url) |->
        IF url[n].kind = "reference" THEN call.substitutions[url[n].key]
        ELSE url[n].text]

WellFormed(url) == \A n \in 1..Len(url) : url[n].kind # "incomplete"

FirstFailing(url) ==
    LET failing == {n \in 1..Len(url) :
                       \/ url[n].kind = "incomplete"
                       \/ url[n].kind = "reference" /\ Unresolved(url[n].key)}
    IN  IF failing = {} THEN 0
        ELSE CHOOSE n \in failing : \A m \in failing : n <= m

Direct(P) ==
    {e \in CatalogIds :
        /\ <<e, P>> \in catalog.endpoint_projects
        /\ catalog.endpoints[e] # NoEndpoint}

Matches(e, g) ==
    /\ catalog.endpoint_groups[g] # NoGroup
    /\ \A f \in catalog.endpoint_groups[g].filters :
          /\ f[1] \in EndpointFields
          /\ Field(catalog.endpoints[e], f[1]) = f[2]

ViaGroups(P) ==
    {e \in CatalogIds :
        /\ catalog.endpoints[e] # NoEndpoint
        /\ \E g \in GroupIds :
              <<g, P>> \in catalog.group_projects /\ Matches(e, g)}

ListsExactly(P) ==
    LET r == list_endpoints_for_project(projects, KHere, CatHere, P)
    IN  /\ r.err = "ok"
        /\ DOMAIN r.value = Direct(P) \cup ViaGroups(P)
        /\ \A e \in DOMAIN r.value : r.value[e] = catalog.endpoints[e]

KnownKeys(P) ==
    \A g \in GroupIds :
        (<<g, P>> \in catalog.group_projects
            /\ catalog.endpoint_groups[g] # NoGroup)
        => \A f \in catalog.endpoint_groups[g].filters :
               f[1] \in EndpointFields

C25_ListsDirectAndGroupEndpoints ==
    \A P \in CatalogProjects :
        (Exists(projects, P) /\ KnownKeys(P)) => ListsExactly(P)

\* It holds of the projects whose groups are all stored.
C25_HoldsWithStoredGroups ==
    \A P \in CatalogProjects :
        (/\ Exists(projects, P)
         /\ KnownKeys(P)
         /\ \A g \in GroupIds :
               <<g, P>> \in catalog.group_projects
                   => catalog.endpoint_groups[g] # NoGroup)
        => ListsExactly(P)

\* C26: a get, update or delete of a region, service or endpoint whose
\* driver call fails with the generic NotFound fails with RegionNotFound,
\* ServiceNotFound or EndpointNotFound: the caller never receives NotFound.
ValidUpdates ==
    {ref \in EndpointUpdates :
        /\ _assert_region_exists(CatHere, ref.region_id)
        /\ _assert_service_exists(CatHere, ref.service_id)}

GetTranslates(id) ==
    /\ catalog.regions[id] = None
       => get_region_with("NotFound", CatHere, id).err = "RegionNotFound"
    /\ catalog.services[id] = None
       => get_service_with("NotFound", CatHere, id).err = "ServiceNotFound"
    /\ catalog.endpoints[id] = NoEndpoint
       => get_endpoint_with("NotFound", CatHere, id).err = "EndpointNotFound"

DeleteTranslates(id) ==
    /\ catalog.regions[id] = None
       => delete_region_with("NotFound", CatHere, id).err = "RegionNotFound"
    /\ catalog.services[id] = None
       => delete_service_with("NotFound", CatHere, id).err
              = "ServiceNotFound"
    /\ catalog.endpoints[id] = NoEndpoint
       => delete_endpoint_with("NotFound", CatHere, id).err
              = "EndpointNotFound"

UpdateTranslates(id) ==
    /\ catalog.regions[id] = None
       => \A v \in Values :
              update_region_with("NotFound", CatHere, id, v).err
                  = "RegionNotFound"
    /\ catalog.services[id] = None
       => \A v \in Values :
              update_service_with("NotFound", CatHere, id, v).err
                  = "ServiceNotFound"
    /\ catalog.endpoints[id] = NoEndpoint
       => \A ref \in ValidUpdates :
              update_endpoint_with("NotFound", CatHere, id, ref).err
                  = "EndpointNotFound"

C26_NotFoundIsEntitySpecific ==
    \A id \in CatalogIds :
        GetTranslates(id) /\ UpdateTranslates(id) /\ DeleteTranslates(id)

\* It holds of get and delete.
C26_GetAndDeleteTranslate ==
    \A id \in CatalogIds : GetTranslates(id) /\ DeleteTranslates(id)

\* C27: create_config and update_config given a config that is empty, that
\* has a group whose value is empty, or that names a group or an option
\* outside the whitelisted and sensitive options fail with
\* InvalidDomainConfig and leave the stored options of the domain, sensitive
\* or not, as they were.
InvalidConfig(config) ==
    \/ config = <<>>
    \/ \E i \in DOMAIN config : config[i].options = <<>>
    \/ \E o \in OptionsOf(config) :
          o \notin whitelisted_options \cup sensitive_options

Rejected(r) ==
    /\ r.err = "InvalidDomainConfig"
    /\ r.whitelisted = whitelisted
    /\ r.sensitive = sensitive

\* The config an update is about.
UpdateOf(config, group, option) ==
    IF Truthy(group) /\ Truthy(option) THEN <<Group(group, config)>>
    ELSE config

RejectsInvalid(configs, bodies(_, _)) ==
    \A domain_id \in DomainIds(projects) :
        /\ \A config \in configs :
              InvalidConfig(config)
              => Rejected(create_config(Here, domain_id, config))
        /\ \A group \in GroupArgs, option \in OptionArgs :
              \A config \in bodies(group, option) :
                  InvalidConfig(UpdateOf(config, group, option))
                  => Rejected(update_config(Here, domain_id, config,
                                            group, option))

C27_InvalidConfigIsRejected == RejectsInvalid(ConfigRequests, UpdateBodies)

\* It holds of the configs whose group and option names are not empty.
NamedConfigs ==
    {c \in ConfigRequests : \A o \in OptionsOf(c) : o[1] # "" /\ o[2] # ""}

NamedBodies(group, option) ==
    IF Truthy(group) /\ Truthy(option)
    THEN {s \in OptionSeqs : \A i \in DOMAIN s : s[i] # ""}
    ELSE NamedConfigs

C27_NamedInvalidConfigIsRejected == RejectsInvalid(NamedConfigs, NamedBodies)

\* C28: create_project with is_domain true, and create_domain, whose id or
\* name is the reserved federated keyword in any case fail with
\* ValidationError and write nothing; so do they when multiple domains are
\* not supported and the id is not the default domain id.
FederatedNames == {FederatedName, FederatedNameCased}
FederatedIds == {FederatedId, FederatedIdCased}

ReservedProjectRefs ==
    [name : Names \cup FederatedNames, enabled : BOOLEAN,
     domain_id : {None}, parent_id : Fresh(projects) \cup {None},
     is_domain : {TRUE}]

Reserved(project_id, name) ==
    name \in FederatedNames \/ project_id \in FederatedIds

NotSupported(project_id) ==
    ~multiple_domains_supported /\ project_id # DefaultDomainId

RefusedAs(r, e) == r.err = e /\ r.projects = projects

DomainCreateFailsWith(refuse(_, _), e) ==
    \A project_id \in CreateIds(projects) \cup FederatedIds :
        /\ \A p \in ReservedProjectRefs :
              refuse(project_id, p.name)
              => RefusedAs(create_project(projects, project_id, p), e)
        /\ \A d \in [name : Names \cup FederatedNames, enabled : BOOLEAN] :
              refuse(project_id, d.name)
              => RefusedAs(create_domain(projects, project_id, d), e)

ReservedOrNotSupported(project_id, name) ==
    Reserved(project_id, name) \/ NotSupported(project_id)

C28_DomainConstraintsRaiseValidationError ==
    DomainCreateFailsWith(ReservedOrNotSupported, "ValidationError")

\* It holds of the ids that are refused where multiple domains are not
\* supported.
OnlyNotSupported(project_id, name) == NotSupported(project_id)

C28_SingleDomainRaisesValidationError ==
    DomainCreateFailsWith(OnlyNotSupported, "ValidationError")

\* The keyword is refused with AssertionError where the id is supported.
ReservedAndSupported(project_id, name) ==
    Reserved(project_id, name) /\ ~NotSupported(project_id)

C28_FederatedRaisesAssertionError ==
    DomainCreateFailsWith(ReservedAndSupported, "AssertionError")

\* C29: in a cascade delete_project, where the driver lists the subtree with
\* every project after its ancestors, the ids handed to the storage delete
\* list every descendant before each of its ancestors and the target last;
\* the pre-delete side effect of every deleted project runs before the
\* storage delete and its cleanup side effect after it.
AncestorsFirst(s, q) ==
    \A j, k \in 1..Len(q) : q[j] \in AncestorsOf(s, q[k]) => j < k

Positions(l, ev) == {k \in 1..Len(l) : l[k].ev = ev}

CascadeOrder(P) ==
    LET r == _delete_project(projects, P, TRUE)
        l == r.log
        deletes == Positions(l, "driver.delete_projects_from_ids")
    IN  (/\ r.err = "ok"
         /\ AncestorsFirst(projects,
                           driver_list_projects_in_subtree(projects, P)))
        => /\ Cardinality(deletes) = 1
           /\ LET at == CHOOSE k \in deletes : TRUE
                  ids == l[at].ids
              IN  /\ Range(ids) = Descendants(projects, P) \cup {P}
                  /\ Len(ids) = Cardinality(Range(ids))
                  /\ ids[Len(ids)] = P
                  /\ \A j, k \in 1..Len(ids) :
                         ids[k] \in AncestorsOf(projects, ids[j]) => j < k
                  /\ \A i \in Range(ids) :
                        /\ \E k \in Positions(l, "pre_delete") :
                              l[k].id = i /\ k < at
                        /\ \E k \in Positions(l, "post_delete") :
                              l[k].id = i /\ k > at
                  /\ \A k \in Positions(l, "pre_delete") : k < at
                  /\ \A k \in Positions(l, "post_delete") : k > at
                  /\ Stored(r.projects) = Stored(projects) \ Range(ids)

C29_CascadeDeletesLeavesFirst ==
    \A P \in Regular(projects) : CascadeOrder(P)

\* A cascade delete succeeds on a project with a child and a grandchild.
C29_Witness ==
    \E P \in Regular(projects) :
        /\ _delete_project(projects, P, TRUE).err = "ok"
        /\ \E c, g \in Descendants(projects, P) :
              projects[g].parent_id = c /\ projects[c].parent_id = P

\* C30: after a project acting as a domain is renamed, through update_domain
\* or through update_project, the memoized get_domain and get_domain_by_name
\* return what storage holds: get_domain_by_name of the old name no longer
\* returns the domain cached under it, and get_domain_by_name of the new
\* name returns the renamed domain.
NoCaches ==
    Caches([i \in Ids |-> NoProject], [key \in NameKeys |-> NoProject],
           [i \in Ids |-> NoProject], [n \in Names |-> NoProject])

Renames(D) ==
    {f \in Payloads(projects, DomainAttrs) :
        "name" \in f.has /\ f.name # projects[D].name}

ByNameIsStored(r, domain_name) ==
    LET cached == get_domain_by_name(r.projects, r.caches, domain_name)
        stored == get_domain_by_name(r.projects, NoCaches, domain_name)
    IN  cached.err = stored.err /\ cached.ref = stored.ref

ReadsStorage(r, D, old, new) ==
    /\ memoized_get_domain(r.projects, r.caches, D).ref = r.projects[D]
    /\ ByNameIsStored(r, old)
    /\ ByNameIsStored(r, new)
    /\ get_domain_by_name(r.projects, r.caches, new).ref
           = [id |-> D, ref |-> r.projects[D]]

RenamedByUpdateDomain(D, f) ==
    LET r == update_domain_cached(projects, KHere, D, f)
    IN  r.err = "ok" => ReadsStorage(r, D, projects[D].name, f.name)

RenamedByUpdateProject(D, f) ==
    LET r == update_project_cached(projects, KHere, D, f, FALSE)
    IN  r.err = "ok" => ReadsStorage(r, D, projects[D].name, f.name)

C30_RenameEvictsDomainCaches ==
    \A D \in DomainIds(projects) : \A f \in Renames(D) :
        RenamedByUpdateDomain(D, f) /\ RenamedByUpdateProject(D, f)

\* It holds of update_domain where get_domain_by_name holds no entry that
\* storage does not hold.
ByNameCoherent ==
    \A n \in Names :
        CacheHit(domain_name_cache, n)
        => domain_name_cache[n]
               = get_domain_by_name(projects, NoCaches, n).ref

C30_UpdateDomainEvicts ==
    ByNameCoherent
    => \A D \in DomainIds(projects) : \A f \in Renames(D) :
           RenamedByUpdateDomain(D, f)

\* update_project leaves the entry of the old name.
C30_UpdateProjectEvicts ==
    ByNameCoherent
    => \A D \in DomainIds(projects) : \A f \in Renames(D) :
           RenamedByUpdateProject(D, f)

----------------------------------------------------------------------------
\* The walk upwards from id comes back to a project it has left.
Cyclic(s, id) == Len(Chain(s, id, NumIds + 1)) = NumIds + 1

ParentsListed ==
    /\ call.fn = "list_project_parents"
    /\ returned # NotReturned

\* C31: list_project_parents of the legacy-driver adapter, called on a
\* table whose parent links lead from the project into a cycle, returns a
\* list of ancestors (empty or truncated); it neither raises nor returns a
\* value that is no list.
C31_CycleGivesList ==
    (ParentsListed /\ Cyclic(projects, call.project_id))
        => returned.err = "ok"

\* The adapter's walk ends on every table, and it ends with the list of all
\* ancestors, nearest first, when the links from the project meet no cycle
\* and no unstored parent.
C31_AcyclicGivesAncestors ==
    (ParentsListed /\ Exists(projects, call.project_id)
                   /\ ~Cyclic(projects, call.project_id)
                   /\ returned.err # "ProjectNotFound")
        => /\ returned.err = "ok"
           /\ returned.refs =
                  Chain(projects, projects[call.project_id].parent_id, NumIds)

AsIdsReturned ==
    /\ call.fn \in {"get_project_parents_as_ids",
                    "get_projects_in_subtree_as_ids"}
    /\ returned # NotReturned

\* C32: get_project_parents_as_ids and get_projects_in_subtree_as_ids, given
\* any flat list of stored projects by the driver, build the nested mapping
\* without recursing until the interpreter gives up, also when the listed
\* parent_id links contain a cycle.
C32_NestedMappingGuardsCycles ==
    (AsIdsReturned /\ call.listed.err = "ok")
        => returned.err # "RecursionError"

\* Over a listing whose projects lead into no cycle the construction ends
\* within the depth of the listing.
C32_AcyclicListingEnds ==
    (AsIdsReturned /\ call.listed.err = "ok"
                   /\ \A i \in Range(call.listed.refs) \cup {call.project_id} :
                          ~Cyclic(projects, i))
        => returned.err # "RecursionError"

----------------------------------------------------------------------------
\* The region ids met by following parent_region_id from id, id included,
\* in at most n steps.
RECURSIVE Upwards(_, _, _)
Upwards(t, id, n) ==
    IF id = None THEN {}
    ELSE IF n = 0 \/ t[id] = NoRegion THEN {id}
    ELSE {id} \cup Upwards(t, t[id].parent_region_id, n - 1)

RegionsStored(t) == {i \in RegionIds : t[i] # NoRegion}

NoCircle(t) ==
    \A i \in RegionsStored(t) :
        i \notin Upwards(t, t[i].parent_region_id, MaxRegions)

\* The check on (region_id, parent_region_id) raises
\* CircularRegionHierarchyError exactly when region_id is met by following
\* parent_region_id from the proposed parent, and it returns.
ChecksReachability(t) ==
    \A region_id \in RegionIds, parent_region_id \in ParentArgs :
        LET e == _ensure_no_circle_in_hierarchical_regions(
                     t, region_id, parent_region_id)
        IN  /\ e # "never returns"
            /\ e = "CircularRegionHierarchyError"
                   <=> region_id \in Upwards(t, parent_region_id, MaxRegions)

\* C33: with every create and update of a region checked by
\* _ensure_no_circle_in_hierarchical_regions before it is stored, the stored
\* parent_region_id links never form a cycle; the check raises
\* CircularRegionHierarchyError whenever the region's own id is reachable
\* from the proposed parent, and it ends on every such table.
C33_RegionHierarchyHasNoCircle ==
    /\ NoCircle(catalog.region_hierarchy)
    /\ ChecksReachability(catalog.region_hierarchy)

\* A chain of three regions is stored, and moving its top under its bottom
\* is refused.
C33_Witness ==
    \E a, b, c \in RegionsStored(catalog.region_hierarchy) :
        /\ catalog.region_hierarchy[b].parent_region_id = a
        /\ catalog.region_hierarchy[c].parent_region_id = b
        /\ driver_update_region(catalog.region_hierarchy, a, c).err =
               "CircularRegionHierarchyError"

----------------------------------------------------------------------------
\* get_catalog and update_endpoint have both returned, the update having
\* changed the driver's tables.
BothReturned ==
    /\ At("get_catalog", "returned")
    /\ At("update_endpoint", "returned")
    /\ in_flight["update_endpoint"].err = "ok"
    /\ in_flight["update_endpoint"].before # catalog

\* C34: when a get_catalog call and a concurrent update_endpoint call have
\* both returned, however their steps were interleaved, the computed-catalog
\* region holds no entry whose value was computed from the tables as they
\* were before the update.
C34_NoStaleCatalogAfterBothReturn ==
    BothReturned =>
        \A key \in CatalogKeys :
            \/ computed_catalog[key] = NoEntry
            \/ computed_catalog[key].value #
                   driver_get_catalog(in_flight["update_endpoint"].before,
                                      key[2], key[3])

\* The same when get_catalog made its driver read after the update's write
\* or stored its value before the invalidation.
C34_NoStaleCatalogUnlessReadThenInvalidated ==
    (BothReturned /\ ~(\E key \in CatalogKeys :
                          /\ in_flight["get_catalog"].key = key
                          /\ computed_catalog[key] # NoEntry
                          /\ computed_catalog[key].value =
                                 in_flight["get_catalog"].value
                          /\ in_flight["get_catalog"].value.tables =
                                 in_flight["update_endpoint"].before))
        => \A key \in CatalogKeys :
               \/ computed_catalog[key] = NoEntry
               \/ computed_catalog[key].value.tables = catalog

----------------------------------------------------------------------------
\* The stored projects the call that ended as r removed.
Removed(r) == Stored(projects) \ Stored(r.projects)

\* C35: delete_project with cascade removes no project that is stored
\* enabled, be it the target (also one with nothing below it) or a project
\* below the target.
C35_CascadeDeleteSparesEnabled ==
    \A id \in Regular(projects) :
        \A j \in Removed(delete_project(Here, id, TRUE)) :
            ~projects[j].enabled

\* The projects below the target are removed only when disabled.
C35_CascadeDeleteSparesEnabledBelow ==
    \A id \in Regular(projects) :
        \A j \in Removed(delete_project(Here, id, TRUE)) \ {id} :
            ~projects[j].enabled

----------------------------------------------------------------------------
\* The update payloads that do not carry the key enabled.
WithoutEnabled == {f \in Payloads(projects, Attrs) : "enabled" \notin f.has}

\* The call that ended as r left every stored enabled flag as it was.
FlagsKept(r) ==
    \A j \in Stored(projects) : r.projects[j].enabled = projects[j].enabled

\* The call was refused for the enabled state of other projects.
RefusedForFlags(r) ==
    r.err = "ForbiddenNotSecurity" /\ r.msg \in {"disabled parents",
                                                  "subtree enabled"}

\* C36: update_project with a payload that has no key enabled, with or
\* without cascade, changes the stored enabled flag of no project and is not
\* refused for the enabled state of the projects above or below the target.
C36_NoEnabledKeyKeepsFlags ==
    \A id \in Stored(projects), f \in WithoutEnabled, cascade \in BOOLEAN :
        LET r == update_project(projects, id, f, cascade)
        IN  FlagsKept(r) /\ ~RefusedForFlags(r)

\* The same holds for a target stored enabled and updated without cascade.
C36_HoldsForEnabledWithoutCascade ==
    \A id \in Stored(projects), f \in WithoutEnabled :
        projects[id].enabled =>
            LET r == update_project(projects, id, f, FALSE)
            IN  FlagsKept(r) /\ ~RefusedForFlags(r)

\* The target's own flag is kept in every case.
C36_TargetFlagKept ==
    \A id \in Stored(projects), f \in WithoutEnabled, cascade \in BOOLEAN :
        update_project(projects, id, f, cascade).projects[id].enabled =
            projects[id].enabled

----------------------------------------------------------------------------
\* The ids a 'disabled' notification of the log is about.
DisabledEvents(l) ==
    {l[k].id : k \in {n \in 1..Len(l) :
                         l[n].ev \in {"disabled", "disabled domain"}}}

\* The update payloads of at most two attributes.
TwoAttrPayloads == PayloadsUpTo(projects, Attrs, 2)

\* Every 'disabled' notification of the call that ended as r is about a
\* project the call took from enabled to disabled, and the call succeeded.
DisabledOnlyWhenDone(r) ==
    \A j \in DisabledEvents(r.log) :
        /\ r.err = "ok"
        /\ projects[j].enabled
        /\ ~r.projects[j].enabled

\* C37: update_project emits a 'disabled' notification for a project only
\* when the call succeeds and has changed that project's stored enabled flag
\* from true to false; a call that fails or writes nothing emits none.
C37_DisabledOnlyAfterDisabling ==
    \A id \in Stored(projects), f \in TwoAttrPayloads, cascade \in BOOLEAN :
        DisabledOnlyWhenDone(update_project(projects, id, f, cascade))

\* A call that succeeds emits the notification only for projects it
\* disabled.
C37_HoldsForSuccessfulCalls ==
    \A id \in Stored(projects), f \in TwoAttrPayloads, cascade \in BOOLEAN :
        LET r == update_project(projects, id, f, cascade)
        IN  r.err = "ok" => DisabledOnlyWhenDone(r)

----------------------------------------------------------------------------
\* The project and every project above it, its domain included, are stored
\* enabled.
BranchStoredEnabled(P) ==
    \A a \in {P} \cup AncestorsOf(projects, P) : projects[a].enabled

\* C38: in every reachable state assert_project_enabled(P) passes only if P
\* and every ancestor of P, the domain-acting root included, are stored
\* enabled, and it raises AssertionError when one of them is disabled.
C38_PassesOnlyOnEnabledBranch ==
    \A P \in Stored(projects) :
        LET r == assert_project_enabled(projects, P)
        IN  /\ r.err = "ok" => BranchStoredEnabled(P)
            /\ ~BranchStoredEnabled(P) => r.err = "AssertionError"

\* assert_project_enabled passes exactly when the project and the
\* domain-acting project named by its domain_id are stored enabled.
C38_ChecksProjectAndDomain ==
    \A P \in Stored(projects) :
        LET r == assert_project_enabled(projects, P)
            d == projects[P].domain_id
        IN  /\ r.err \in {"ok", "AssertionError", "DomainNotFound"}
            /\ r.err = "ok" <=>
                   /\ projects[P].enabled
                   /\ d # None => /\ get_domain(projects, d).err = "ok"
                                  /\ projects[d].enabled

----------------------------------------------------------------------------
\* create_project of a child and the call on its parent have both returned
\* without an error.
ChildAndParentCallsDone ==
    /\ At("create_project", "returned")
    /\ At("parent_call", "returned")
    /\ in_flight["create_project"].err = "ok"
    /\ in_flight["parent_call"].err = "ok"
    /\ in_flight["create_project"].project.parent_id =
           in_flight["parent_call"].id

\* C39: after create_project of a child under the regular project P and a
\* concurrent update_project(P, {enabled: false}) or delete_project(P) have
\* both returned, P is not stored disabled with the child stored enabled,
\* and the child is not stored with P gone.
C39_ChecksStillHoldAtTheWrite ==
    ChildAndParentCallsDone =>
        LET child == in_flight["create_project"].id
            P == in_flight["parent_call"].id
        IN  Exists(projects, child) =>
                /\ Exists(projects, P)
                /\ projects[child].enabled => projects[P].enabled

----------------------------------------------------------------------------
PollReturned == call.fn = "poll" /\ returned # NotReturned

\* The most calls of the wrapped poll a call may make.
PollLimit ==
    IF call.driver_prefetch > 0
    THEN IF call.prefetch_size <= call.driver_prefetch
         THEN call.prefetch_size ELSE call.driver_prefetch
    ELSE call.prefetch_size

C40_WitnessStopsAtNone ==
    /\ PollReturned
    /\ returned.calls = 2
    /\ returned.calls < PollLimit
    /\ Len(returned.incomings) = 1
    /\ call.polls[3] # None
====
